---- MODULE Spec2Model ----
(***************************************************************************)
(* Cashfree payout webhook reconciliation (cashfree_integration/api/       *)
(* webhook.py): the handler cashfree_payout_webhook, its idempotency       *)
(* ledger (Cashfree Webhook Log), reference resolution, duplicate check    *)
(* and Payment Entry creation, over an abstract Frappe database.           *)
(*                                                                         *)
(* The handler is modelled as a sequence of steps, one per database        *)
(* access group.  Each step is a function of (database, locals); the       *)
(* sequential specification Spec runs a whole invocation as one action,    *)
(* the concurrent specification SpecConc interleaves the same steps of     *)
(* two request workers.                                                    *)
(*                                                                         *)
(* SpecEntry adds the other two places that create Payment Entries, the    *)
(* handler of api/webhooks.py and utils/retry_pe.py; SpecPayout covers the *)
(* payout trigger of api/payouts.py and the Purchase Order validations of  *)
(* api/payment_validation.py and overrides/payment_request.py.             *)
(***************************************************************************)
EXTENDS Integers, Sequences, FiniteSets, TLC

NoVal == "none"

\* Bound: number of webhook deliveries in one behaviour.
MaxDeliveries == 2
\* Bound: the same for the wide-payload specification.
MaxWideDeliveries == 1
\* Bound: calls of the settlement-creating entry points in one behaviour.
MaxEntryCalls == 2
\* Bound: payout triggers and validations of one Payment Request.
MaxPayoutCalls == 2


\* The Payment Requests the bulk workflow actions work on, the last call
\* (its name, its arguments and the session user's roles), its results and
\* whether it ended in frappe.throw.
BulkNames == {"PR-1", "PR-2"}
NoBulk ==
    [prs |-> [n \in BulkNames |->
                 [workflow_state |-> "Draft",
                  custom_cashfree_payout_id |-> NoVal,
                  custom_reconciliation_status |-> "Pending",
                  custom_utr_number |-> NoVal,
                  custom_transfer_mode |-> NoVal]],
     seq |-> 0, op |-> NoVal, payment_requests |-> <<>>, user_roles |-> {},
     password |-> NoVal, transfer_mode |-> NoVal,
     results |-> [success |-> {}, failed |-> {}, skipped |-> {}],
     raised |-> NoVal]

----------------------------------------------------------------------------
\* Data the requests and the database are drawn from.

Procs == {"w1", "w2"}

PaymentRequests == {"PR-1", "PR-2"}
Companies == {"C1", "C2"}

\* Transfer identifiers a notification may carry: the name of PR-1, the
\* payout id stored on PR-2, and an identifier no Payment Request has.
TransferIds == {"PR-1", "TX7", "ZZ"}
Events == {"TRANSFER_SUCCESS", "TRANSFER_FAILED", "TRANSFER_REVERSED",
           "TRANSFER_ACKNOWLEDGED"}
Utrs == {"U1", "U2"}
Reasons == {"R1"}

\* The client_secret the gateway signs with, a declared signature that is
\* no HMAC at all, and the x-webhook-timestamp of a notification sent now.
GatewaySecret == "k"
Forged == "forged"
FreshTimestamp == "1700"

\* sorted(): the keys a payload may carry, in code point order.
KeyOrder ==
    <<"amount", "cmd", "doctype", "event", "reason", "signature",
      "transferId", "transfer_id", "utr">>

\* Keys of the dict data: a field holding NoVal is an absent key.
Keys(data) == {k \in DOMAIN data : data[k] # NoVal}

RECURSIVE Join(_, _)
\* "".join(str(data[k]) for k in keys)
Join(data, keys) ==
    IF keys = <<>> THEN ""
    ELSE data[Head(keys)] \o Join(data, Tail(keys))

\* base64(HMAC-SHA256(secret, payload)): one digest per (secret, payload).
Hmac(secret, payload) == "hmac(" \o secret \o "," \o payload \o ")"

\* Scheme A: the values of the fields other than signature, cmd and doctype,
\* in the order of their sorted keys, joined without separator.
PayloadV1(data) ==
    LET stripped == Keys(data) \ {"signature", "cmd", "doctype"}
        sorted_keys == SelectSeq(KeyOrder, LAMBDA k : k \in stripped)
    IN Join(data, sorted_keys)

PayloadOfBodyOnly(timestamp, raw_body) == raw_body

\* Scheme B: timestamp + raw_body.
PayloadV2(timestamp, raw_body) == timestamp \o raw_body

\* The request text that parses to data (json.loads / form_dict).
RawBody(data) ==
    Join([k \in Keys(data) |-> k \o "=" \o data[k] \o "&"],
         SelectSeq(KeyOrder, LAMBDA k : k \in Keys(data)))

\* Amounts a notification may carry, as sent; float() of each.
Amounts == {"0", "500", "1000", "1500"}
Float(text) ==
    CASE text = "0" -> 0
      [] text = "500" -> 500
      [] text = "1000" -> 1000
      [] text = "1500" -> 1500

\* Parsed request bodies (data) before signing: utr and amount come with
\* TRANSFER_SUCCESS, reason with TRANSFER_FAILED / TRANSFER_REVERSED.
UnsignedBodies ==
    { b \in [transferId : TransferIds, event : Events, signature : {NoVal},
             utr : Utrs \cup {NoVal}, reason : Reasons \cup {NoVal},
             amount : {"1000", NoVal}] :
        /\ (b.utr # NoVal) <=> (b.event = "TRANSFER_SUCCESS")
        /\ (b.amount # NoVal) <=> (b.event = "TRANSFER_SUCCESS")
        /\ (b.reason # NoVal) <=>
               (b.event \in {"TRANSFER_FAILED", "TRANSFER_REVERSED"}) }

\* The signature field is absent, is no digest, or is the digest of the
\* payload under one of the secrets.
WithBodySignature(bodies, secrets) ==
    UNION { { [b EXCEPT !.signature = s] :
                s \in {NoVal, Forged}
                      \cup {Hmac(k, PayloadV1(b)) : k \in secrets} } :
            b \in bodies }

Bodies == WithBodySignature(UnsignedBodies, {GatewaySecret})

\* The same for the x-webhook-signature header.
WithHeaderSignature(bodies, timestamps, submit, secrets) ==
    UNION { { [body |-> b, raw_body |-> RawBody(b), sig_header |-> h,
               timestamp |-> t, submit_raises |-> s,
               log_raises |-> FALSE] :
                h \in {NoVal, Forged}
                      \cup {Hmac(k, PayloadV2(t, RawBody(b))) :
                              k \in secrets},
                s \in submit } :
            <<b, t>> \in bodies \X timestamps }

\* A request: the raw body and the data it parses to, the
\* x-webhook-signature and x-webhook-timestamp headers, and whether
\* pe.submit() raises and whether create_webhook_log fails in this
\* invocation.
Requests ==
    { r \in WithHeaderSignature(Bodies, {FreshTimestamp}, BOOLEAN,
                                {GatewaySecret}) :
        r.submit_raises => r.body.event = "TRANSFER_SUCCESS" }

\* The body signature, the header signature of r is the gateway's.
BodySigned(r) ==
    r.body.signature = Hmac(GatewaySecret, PayloadV1(r.body))
HeaderSigned(r) ==
    r.sig_header =
        Hmac(GatewaySecret, PayloadV2(r.timestamp, r.raw_body))

\* Requests of the concurrent specification: header-signed notifications.
ConcRequests ==
    { r \in Requests :
        /\ r.body.signature = NoVal
        /\ HeaderSigned(r)
        /\ ~r.submit_raises
        /\ r.body.transferId \in {"PR-1", "TX7"}
        /\ r.body.event \in {"TRANSFER_SUCCESS", "TRANSFER_FAILED"}
        /\ r.body.utr \in {"U1", NoVal} }

\* Payment Request rows before any notification arrives.
InitialPaymentRequests ==
    [n \in PaymentRequests |->
        [party |-> "S1",
         company |-> IF n = "PR-1" THEN "C1" ELSE "C2",
         reference_doctype |-> NoVal,
         reference_name |-> NoVal,
         custom_cashfree_payout_id |-> IF n = "PR-2" THEN "TX7" ELSE NoVal,
         custom_reconciliation_status |-> "Pending",
         custom_failure_reason |-> NoVal,
         custom_utr_number |-> NoVal,
         party_type |-> "Supplier",
         grand_total |-> 1000,
         mode_of_payment |-> "Cashfree"]]

\* Cashfree Payout Log rows, by their payment_request: one per payout sent.
InitialPayoutLogs ==
    [n \in PaymentRequests |->
        [status |-> "Pending", response_payload |-> NoVal]]

\* Companies for which get_cashfree_bank_account finds an account.
AccountSetups == {{"C1", "C2"}, {"C1"}}

\* The document a Payment Request refers to: exists is FALSE when there is
\* no such row; a Purchase Order carries grand_total and advance_paid, a
\* Purchase Invoice outstanding_amount.
ReferenceName == "DOC-1"
NoDocument ==
    [exists |-> FALSE, grand_total |-> 0, advance_paid |-> 0,
     outstanding_amount |-> 0]

\* Reference documents of the wide-payload specification: none, a Purchase
\* Order or Purchase Invoice with and without outstanding, a name that no
\* document has, and a doctype the allocation does not handle.
WideReferences ==
    {[reference_doctype |-> NoVal, doc |-> NoDocument]}
    \cup {[reference_doctype |-> "Purchase Order",
           doc |-> [exists |-> TRUE, grand_total |-> g, advance_paid |-> a,
                    outstanding_amount |-> 0]] :
            <<g, a>> \in {<<1000, 0>>, <<1000, 1000>>, <<500, 1000>>}}
    \cup {[reference_doctype |-> "Purchase Invoice",
           doc |-> [exists |-> TRUE, grand_total |-> 1000,
                    advance_paid |-> 0, outstanding_amount |-> o]] :
            o \in {1000, 0, 0 - 500}}
    \cup {[reference_doctype |-> t, doc |-> NoDocument] :
            t \in {"Purchase Order", "Purchase Invoice", "Sales Order"}}

\* PR-1 refers to the document of the setup.
WidePaymentRequests(ref) ==
    [InitialPaymentRequests EXCEPT
        !["PR-1"].reference_doctype = ref.reference_doctype,
        !["PR-1"].reference_name =
            IF ref.reference_doctype = NoVal THEN NoVal ELSE ReferenceName]

\* transfer_id.replace("-", "_") of CashfreeAPIManager.create_transfer.
GatewayTransferId(transfer_id) ==
    CASE transfer_id = "PR-1" -> "PR_1"
      [] transfer_id = "PR-2" -> "PR_2"
      [] OTHER -> transfer_id

\* An x-webhook-timestamp older than any clock-skew window.
StaleTimestamp == "1000"

\* Requests of the wide-payload specification: TRANSFER_SUCCESS for PR-1
\* under its name or its gateway transfer id, with every amount or none,
\* signed in the body or in the header with the gateway's secret or with
\* the empty key, sent now or long ago.
WideRequests ==
    { r \in WithHeaderSignature(
                WithBodySignature(
                    [transferId : {"PR-1", GatewayTransferId("PR-1")},
                     event : {"TRANSFER_SUCCESS"}, signature : {NoVal},
                     utr : {"U1"}, reason : {NoVal},
                     amount : Amounts \cup {NoVal}],
                    {GatewaySecret, ""}),
                {FreshTimestamp, StaleTimestamp}, BOOLEAN,
                {GatewaySecret, ""}) :
        /\ r.body.signature # Forged
        /\ r.sig_header # Forged
        /\ (r.body.signature = NoVal) # (r.sig_header = NoVal) }

\* hexdigest of HMAC-SHA256(secret, payload).
HmacHex(secret, payload) == "hex(" \o secret \o "," \o payload \o ")"

\* json.dumps(transfer_data, separators=(',', ':'), sort_keys=True)
TransferKeyOrder == <<"reason", "status", "transfer_id", "utr">>
PayloadJson(transfer_data) ==
    "{" \o Join([k \in Keys(transfer_data) |->
                    k \o ":" \o transfer_data[k] \o ","],
                SelectSeq(TransferKeyOrder,
                          LAMBDA k : k \in Keys(transfer_data))) \o "}"

\* Requests to the api/webhooks.py handler: the timestamp and the transfer
\* data of the JSON body, the x-webhook-signature header (absent, no digest,
\* or the gateway's), and whether each notifier raises in this invocation.
Notices ==
    UNION { { [timestamp |-> FreshTimestamp, data |-> t, signature |-> h,
               accountant_raises |-> a, vendor_raises |-> v] :
                h \in {NoVal, Forged,
                       HmacHex(GatewaySecret,
                               FreshTimestamp \o PayloadJson(t))},
                a \in IF t.status = "SUCCESS" THEN BOOLEAN ELSE {FALSE},
                v \in IF t.status = "SUCCESS" THEN BOOLEAN ELSE {FALSE} } :
            t \in { t \in [transfer_id : {"PR-1", NoVal},
                           status : {"SUCCESS", "FAILED"},
                           utr : {"U1", NoVal}, reason : {"R1", NoVal}] :
                      /\ (t.utr # NoVal) <=> (t.status = "SUCCESS")
                      /\ (t.reason # NoVal) <=> (t.status = "FAILED") } }

\* Requests to the api/webhook.py handler in the entry-point specification:
\* notifications signed by the gateway in the header, for PR-1, for the
\* payout of PR-2 or without a transfer identifier, handled with the
\* Cashfree Webhook Log writable or failing.
EntryRequests ==
    { [r EXCEPT !.log_raises = f] : f \in BOOLEAN, r \in
      { r \in WithHeaderSignature(
                { b \in [transferId : {"PR-1", "TX7", NoVal}, event : Events,
                         signature : {NoVal}, utr : Utrs \cup {NoVal},
                         reason : Reasons \cup {NoVal},
                         amount : {"1000", NoVal}] :
                    /\ b.utr = (CASE b.event # "TRANSFER_SUCCESS" -> NoVal
                                  [] b.transferId = "TX7" -> "U2"
                                  [] OTHER -> "U1")
                    /\ (b.amount # NoVal) <=> (b.event = "TRANSFER_SUCCESS")
                    /\ (b.reason # NoVal) <=>
                           (b.event \in {"TRANSFER_FAILED",
                                         "TRANSFER_REVERSED"})
                    /\ b.transferId = "TX7"
                           => b.event = "TRANSFER_SUCCESS" },
                {FreshTimestamp}, {FALSE}, {GatewaySecret}) :
        HeaderSigned(r) } }

\* PR-2 before the calls: its payout still pending, or reported successful
\* with its UTR by a notification whose Payment Entry creation failed.
EntryPaymentRequests ==
    { [InitialPaymentRequests EXCEPT
          !["PR-2"].custom_reconciliation_status = st.status,
          !["PR-2"].custom_utr_number = st.utr] :
        st \in {[status |-> "Pending", utr |-> NoVal],
                [status |-> "Success", utr |-> "U2"]} }

\* Every value of the transfer identifier field, absent included.
AllTransferIds == TransferIds \cup {GatewayTransferId("PR-1"), NoVal}

\* Signed contents of the signature specification.  Scheme A: dicts over
\* four keys with short values; scheme B: header timestamps and raw bodies.
SigValues == {"A", "AB", "B"}
SigData ==
    [cmd : {"x", NoVal}, event : SigValues \cup {NoVal},
     transferId : SigValues \cup {NoVal},
     transfer_id : SigValues \cup {NoVal}]
SigTimestamps == {"1", "17"}
SigRawBodies == {"{}", "7{}", "{x}"}

NoSigData ==
    [cmd |-> NoVal, event |-> NoVal, transferId |-> NoVal,
     transfer_id |-> NoVal]

\* No pair under examination.
NoSigCase ==
    [scheme |-> NoVal, data1 |-> NoSigData, data2 |-> NoSigData,
     timestamp1 |-> NoVal, raw_body1 |-> NoVal,
     timestamp2 |-> NoVal, raw_body2 |-> NoVal,
     declared |-> NoVal, checked |-> FALSE,
     passed1 |-> FALSE, passed2 |-> FALSE]

\* Two requests that declare the same signature s.
SigCaseV1(data1, data2, s) ==
    [NoSigCase EXCEPT !.scheme = "A", !.data1 = data1, !.data2 = data2,
                      !.declared = s]
SigCaseV2(timestamp1, raw_body1, timestamp2, raw_body2, s) ==
    [NoSigCase EXCEPT !.scheme = "B",
                      !.timestamp1 = timestamp1, !.raw_body1 = raw_body1,
                      !.timestamp2 = timestamp2, !.raw_body2 = raw_body2,
                      !.declared = s]

NoResponse == [status |-> NoVal, code |-> 0, payment_entry |-> 0]

NoNotice ==
    [timestamp |-> NoVal,
     data |-> [transfer_id |-> NoVal, status |-> NoVal, utr |-> NoVal,
               reason |-> NoVal],
     signature |-> NoVal, accountant_raises |-> FALSE,
     vendor_raises |-> FALSE]

\* No call of api/webhooks.py or utils/retry_pe.py yet; success holds the
\* Payment Requests a run of the retry job reports as success.
NoCall ==
    [seq |-> 0, entry |-> NoVal, req |-> NoNotice,
     resp |-> [status |-> NoVal, message |-> NoVal, pe_created |-> FALSE,
               payment_entry |-> 0],
     success |-> {}]

NoRequest ==
    [body |-> [transferId |-> NoVal, event |-> NoVal, signature |-> NoVal,
               utr |-> NoVal, reason |-> NoVal, amount |-> NoVal],
     raw_body |-> NoVal, sig_header |-> NoVal, timestamp |-> NoVal,
     submit_raises |-> FALSE, log_raises |-> FALSE]

\* Locals of one handler invocation; evaluated holds the signature schemes
\* whose verification function the invocation called.
IdleLocal ==
    [pc |-> "idle", req |-> NoRequest, existing |-> 0, retry_read |-> 0,
     webhook_log |-> 0, pr_name |-> NoVal, existing_pe |-> 0, pe |-> 0,
     submit_error |-> FALSE, warnings |-> {}, resp |-> NoResponse,
     evaluated |-> {}]

\* The Payment Request handed to the payout trigger and to the validation
\* hooks, its Purchase Order and Bank Account, the total of the other
\* non-cancelled Payment Requests of that Purchase Order, and what reached
\* the gateway.
NoPayout ==
    [doc |-> [name |-> NoVal, workflow_state |-> NoVal, grand_total |-> 0,
              reference_doctype |-> NoVal, reference_name |-> NoVal,
              custom_director_override |-> NoVal, bank_account |-> NoVal,
              custom_cashfree_payout_id |-> NoVal,
              custom_reconciliation_status |-> NoVal,
              custom_utr_number |-> NoVal],
     po |-> NoDocument, existing_prs_total |-> 0,
     bank |-> [custom_bank_account_approval_status |-> NoVal,
               custom_bank_account_verified |-> 0],
     beneficiaries |-> 0, transfers |-> 0, payout_logs |-> 0,
     seq |-> 0, op |-> NoVal, raised |-> NoVal]

\* Bank Accounts: approved and verified, approved only, verified only.
BankAccounts ==
    {[custom_bank_account_approval_status |-> a,
      custom_bank_account_verified |-> v] :
        <<a, v>> \in {<<"Approved", 1>>, <<"Approved", 0>>,
                      <<"Pending", 1>>}}

\* Payment Requests of the payout specification: PR-1 for 1000 or 1500,
\* against an existing Purchase Order of 1000, a missing one, or none, with
\* custom_director_override (a check box) unset, 0 or 1.
PayoutSetups ==
    { [NoPayout EXCEPT
          !.doc.name = "PR-1",
          !.doc.workflow_state = w,
          !.doc.grand_total = g,
          !.doc.reference_doctype = ref.reference_doctype,
          !.doc.reference_name =
              IF ref.reference_doctype = NoVal THEN NoVal ELSE ReferenceName,
          !.doc.custom_director_override = o,
          !.doc.bank_account = "BA-1",
          !.po = ref.doc,
          !.existing_prs_total = IF ref.doc.exists THEN t ELSE 0,
          !.bank = v] :
        w \in {"Queued", "Draft"}, g \in {1000, 1500},
        ref \in {[reference_doctype |-> NoVal, doc |-> NoDocument],
                 [reference_doctype |-> "Purchase Order", doc |-> NoDocument],
                 [reference_doctype |-> "Purchase Order",
                  doc |-> [NoDocument EXCEPT !.exists = TRUE,
                                             !.grand_total = 1000]]},
        o \in {NoVal, "0", "1"}, t \in {0, 500}, v \in BankAccounts }

\* What the gateway does with one trigger: create_beneficiary_v2 succeeds
\* or raises; the transfer is answered 200 with or without cf_transfer_id
\* (transfer_id echoes the request) and a status, or with an error.
GatewayResponses ==
    [beneficiary_ok : BOOLEAN, http_status : {200, 400},
     cf_transfer_id : {"CF-1", NoVal},
     status : {"PENDING", "SUCCESS", "FAILED"}]

\* The value of a variable in the specifications that never read or write
\* it.
NotInUse == <<>>

VARIABLES
    db,         \* [logs, pes, prs, payout_logs, ...]: the committed database
    run,        \* locals of the last completed invocation (sequential)
    procs,      \* locals of each request worker (concurrent)
    delivered,  \* number of deliveries received per transfer identifier
    sig,        \* a pair of signed contents under one declared signature
    call,       \* the last call of api/webhooks.py or utils/retry_pe.py
    payout,     \* a Payment Request on its way to the gateway
    bulk        \* Payment Requests under the bulk workflow actions

vars == <<db, run, procs, delivered, sig, call, payout, bulk>>

----------------------------------------------------------------------------
\* Database helpers.

RECURSIVE FirstIndex(_, _, _)
\* Least index i >= from of seq with seq[i] in the set of matching indices.
FirstIndex(matching, from, last) ==
    IF from > last THEN 0
    ELSE IF from \in matching THEN from
    ELSE FirstIndex(matching, from + 1, last)

\* frappe.db.exists("Cashfree Webhook Log", {"transfer_id": transfer_id})
ExistingLog(d, transfer_id) ==
    FirstIndex({i \in DOMAIN d.logs : d.logs[i].transfer_id = transfer_id},
               1, Len(d.logs))

NoDuplicateCheck(d, utr, party) == 0

\* frappe.db.exists("Payment Entry", {reference_no, party, docstatus != 2})
ExistingPE(d, utr, party) ==
    FirstIndex({i \in DOMAIN d.pes :
                   /\ d.pes[i].reference_no = utr
                   /\ d.pes[i].party = party
                   /\ d.pes[i].docstatus # 2},
               1, Len(d.pes))

\* webhook_log.db_set(field, value) for every field of updates; a missing
\* handle is a no-op.
update_webhook_log(d, webhook_log, updates) ==
    IF webhook_log = 0 THEN d
    ELSE [d EXCEPT !.logs[webhook_log] =
             [f \in DOMAIN @ |->
                 IF f \in DOMAIN updates THEN updates[f] ELSE @[f]]]

Finish(l, status, code, payment_entry) ==
    [l EXCEPT !.pc = "done",
              !.resp = [status |-> status, code |-> code,
                        payment_entry |-> payment_entry]]

----------------------------------------------------------------------------
\* create_webhook_log

\* int(time.time()) at the receipt of a notification.
ReceivedAt == "1700"

\* transfer_id or f"UNKNOWN-{int(time.time())}"
LogKey(transfer_id) ==
    IF transfer_id = NoVal THEN "UNKNOWN-" \o ReceivedAt ELSE transfer_id

RetryCountKept(retry_count) == retry_count

NextRetryCount(retry_count) == retry_count + 1

\* The existence check and the read of the existing row.
create_webhook_log_check(d, l) ==
    LET existing == ExistingLog(d, LogKey(l.req.body.transferId)) IN
    [d |-> d,
     l |-> [l EXCEPT !.existing = existing,
                     !.retry_read =
                         IF existing # 0 THEN d.logs[existing].retry_count
                         ELSE 0,
                     !.pc = "log_write"]]

\* log.save() of the existing row, or log.insert() of a new one; when it
\* raises, except Exception returns None and nothing is written.
create_webhook_log_write(d, l) ==
    IF l.req.log_raises
    THEN [d |-> d, l |-> [l EXCEPT !.webhook_log = 0, !.pc = "verify"]]
    ELSE IF l.existing # 0
    THEN [d |-> [d EXCEPT !.logs[l.existing].retry_count =
                              NextRetryCount(l.retry_read),
                          !.logs[l.existing].status = "Received"],
          l |-> [l EXCEPT !.webhook_log = l.existing, !.pc = "verify"]]
    ELSE [d |-> [d EXCEPT !.logs = Append(@,
                    [transfer_id |-> LogKey(l.req.body.transferId),
                     webhook_event |-> l.req.body.event,
                     raw_payload |-> l.req.body,
                     status |-> "Received",
                     retry_count |-> 0,
                     payment_request |-> NoVal,
                     payment_entry |-> 0,
                     error_log |-> NoVal])],
          l |-> [l EXCEPT !.webhook_log = Len(d.logs) + 1, !.pc = "verify"]]

----------------------------------------------------------------------------
\* Signature verification

AcceptAnySignature(d, data, received_signature) == TRUE

\* Scheme A.  Without a configured client_secret nothing verifies.
verify_cashfree_signature_v1(d, data, received_signature) ==
    LET secret == d.client_secret IN
    IF secret = NoVal THEN FALSE
    ELSE Hmac(secret, PayloadV1(data)) = received_signature

VerifiesWithoutSecret(d, timestamp, raw_body, received_signature) ==
    Hmac(IF d.client_secret = NoVal THEN "" ELSE d.client_secret,
         PayloadV2(timestamp, raw_body)) = received_signature

\* Scheme B, over the x-webhook-timestamp header and the raw body.
verify_cashfree_signature_v2(d, timestamp, raw_body, received_signature) ==
    LET secret == d.client_secret IN
    IF secret = NoVal THEN FALSE
    ELSE Hmac(secret, PayloadV2(timestamp, raw_body)) = received_signature

SignatureFailed(d, l, error_log) ==
    [d |-> update_webhook_log(d, l.webhook_log,
              [status |-> "Signature Failed", error_log |-> error_log]),
     l |-> Finish(l, "error", 401, 0)]

\* if sig_in_body: scheme A and, failing that, elif sig_in_header: scheme B.
HeaderFallback(d, l) ==
    LET sig_in_body == l.req.body.signature
        sig_in_header == l.req.sig_header
        v1 == /\ sig_in_body # NoVal
              /\ Hmac(d.client_secret, PayloadV1(l.req.body)) = sig_in_body
        v2 == /\ sig_in_header # NoVal
              /\ Hmac(d.client_secret,
                      PayloadV2(l.req.timestamp, l.req.raw_body))
                     = sig_in_header
    IN IF v1 \/ v2
       THEN [d |-> update_webhook_log(d, l.webhook_log,
                       [status |-> "Signature Verified"]),
             l |-> [l EXCEPT !.pc = "event",
                             !.evaluated = IF v1 THEN {"A"} ELSE {"B"}]]
       ELSE [d |-> update_webhook_log(d, l.webhook_log,
                       [status |-> "Signature Failed",
                        error_log |-> "signature verification failed"]),
             l |-> Finish([l EXCEPT !.evaluated =
                              IF sig_in_body # NoVal THEN {"A"}
                              ELSE IF sig_in_header # NoVal THEN {"B"}
                              ELSE {}],
                          "error", 401, 0)]

\* if sig_in_body: scheme A; elif sig_in_header: scheme B; else: rejected.
validate_signature(d, l) ==
    LET sig_in_body == l.req.body.signature
        sig_in_header == l.req.sig_header
        called(scheme) == [l EXCEPT !.evaluated = {scheme}]
        verified(l1) == [d |-> update_webhook_log(d, l.webhook_log,
                                   [status |-> "Signature Verified"]),
                         l |-> [l1 EXCEPT !.pc = "event"]]
    IN
    IF sig_in_body # NoVal
    THEN IF verify_cashfree_signature_v1(d, l.req.body, sig_in_body)
         THEN verified(called("A"))
         ELSE SignatureFailed(d, called("A"),
                              "V1 signature verification failed")
    ELSE IF sig_in_header # NoVal
    THEN IF verify_cashfree_signature_v2(
                d, IF l.req.timestamp = NoVal THEN "" ELSE l.req.timestamp,
                l.req.raw_body, sig_in_header)
         THEN verified(called("B"))
         ELSE SignatureFailed(d, called("B"),
                              "V2 signature verification failed")
    ELSE SignatureFailed(d, l, "No signature provided")

----------------------------------------------------------------------------
\* Non-success events

StatusMappingSwapped(event_type) ==
    CASE event_type = "TRANSFER_FAILED" -> "Reversed"
      [] event_type = "TRANSFER_REVERSED" -> "Failed"
      [] OTHER -> "Pending"

status_mapping(event_type) ==
    CASE event_type = "TRANSFER_FAILED" -> "Failed"
      [] event_type = "TRANSFER_REVERSED" -> "Reversed"
      [] OTHER -> "Pending"

StatusUpdateClearsPayoutId(d, transfer_id, event_type, data) ==
    [d EXCEPT !.prs =
        [n \in DOMAIN @ |->
            IF n = transfer_id \/ @[n].custom_cashfree_payout_id = transfer_id
            THEN [@[n] EXCEPT
                     !.custom_reconciliation_status =
                         status_mapping(event_type),
                     !.custom_failure_reason =
                         IF data.reason # NoVal THEN data.reason ELSE "",
                     !.custom_cashfree_payout_id = NoVal]
            ELSE @[n]]]

\* UPDATE `tabPayment Request` SET custom_reconciliation_status,
\* custom_failure_reason WHERE name = tid OR custom_cashfree_payout_id = tid
update_payment_request_status(d, transfer_id, event_type, data) ==
    LET new_status == status_mapping(event_type)
        failure_reason == IF data.reason # NoVal THEN data.reason ELSE ""
    IN [d EXCEPT !.prs =
           [n \in DOMAIN @ |->
               IF n = transfer_id
                  \/ @[n].custom_cashfree_payout_id = transfer_id
               THEN [@[n] EXCEPT
                        !.custom_reconciliation_status = new_status,
                        !.custom_failure_reason = failure_reason]
               ELSE @[n]]]

\* if not payment_data["transfer_id"]
missing_transfer_id(d, l) ==
    [d |-> update_webhook_log(d, l.webhook_log,
               [status |-> "Error",
                error_log |-> "No transfer_id found in payload"]),
     l |-> Finish(l, "error", 400, 0)]

\* Events other than TRANSFER_SUCCESS are answered here, before the
\* transfer identifier is looked at; TRANSFER_SUCCESS goes on to the
\* payment data.
handle_event(d, l) ==
    LET event_type == l.req.body.event
        transfer_id == l.req.body.transferId
    IN
    IF event_type # "TRANSFER_SUCCESS"
    THEN LET d1 == update_webhook_log(d, l.webhook_log,
                      [status |-> "Ignored",
                       error_log |-> "Event type not processed"])
             d2 == IF /\ transfer_id # NoVal
                      /\ event_type \in
                             {"TRANSFER_FAILED", "TRANSFER_REVERSED"}
                   THEN update_payment_request_status(
                            d1, transfer_id, event_type, l.req.body)
                   ELSE d1
         IN [d |-> d2, l |-> Finish(l, "ignored", 200, 0)]
    ELSE IF transfer_id = NoVal
    THEN missing_transfer_id(d, l)
    ELSE [d |-> d, l |-> [l EXCEPT !.pc = "find_pr"]]

----------------------------------------------------------------------------
\* create_payment_entry_with_validation

\* Payment Request by name, else by custom_cashfree_payout_id.
FindPaymentRequest(d, transfer_id) ==
    IF transfer_id \in DOMAIN d.prs THEN transfer_id
    ELSE LET byPayoutId ==
                 {n \in DOMAIN d.prs :
                     d.prs[n].custom_cashfree_payout_id = transfer_id}
         IN IF byPayoutId # {} THEN CHOOSE n \in byPayoutId : TRUE
            ELSE NoVal

NotFoundLeftUnlogged(d, l) ==
    [d |-> d, l |-> Finish(l, "error", 404, 0)]

\* No Payment Request by either lookup: logged, answered 404.
payment_request_not_found(d, l) ==
    [d |-> update_webhook_log(d, l.webhook_log,
               [status |-> "Validation Failed"]),
     l |-> Finish(l, "error", 404, 0)]

find_payment_request(d, l) ==
    LET pr_name == FindPaymentRequest(d, l.req.body.transferId) IN
    IF pr_name = NoVal
    THEN payment_request_not_found(d, l)
    ELSE [d |-> update_webhook_log(d, l.webhook_log,
                    [payment_request |-> pr_name]),
          l |-> [l EXCEPT !.pr_name = pr_name, !.pc = "dup_check"]]

check_duplicate(d, l) ==
    LET existing_pe == ExistingPE(d, l.req.body.utr, d.prs[l.pr_name].party) IN
    IF existing_pe # 0
    THEN [d |-> update_webhook_log(d, l.webhook_log,
                    [status |-> "Duplicate", payment_entry |-> existing_pe]),
          l |-> Finish([l EXCEPT !.existing_pe = existing_pe],
                       "success", 200, existing_pe)]
    ELSE [d |-> d, l |-> [l EXCEPT !.pc = "draft"]]

AccountAlwaysFound(d, company) == TRUE

get_cashfree_bank_account(d, company) == company \in d.accounts

\* payment_data["amount"]: float() of the field, 0 when it is absent.
Amount(data) == IF data.amount = NoVal THEN 0 ELSE Float(data.amount)

Min(a, b) == IF a < b THEN a ELSE b

NoAllocation == [references |-> <<>>, warnings |-> {}, note |-> ""]

AllocatedInFull(pr, amount, outstanding) ==
    [references |-> <<[reference_doctype |-> pr.reference_doctype,
                       reference_name |-> pr.reference_name,
                       allocated_amount |-> amount]>>,
     warnings |-> {},
     note |-> "Allocated"]

\* One reference row of min(amount, outstanding); what exceeds it is
\* reported as advance.
Allocated(pr, amount, outstanding) ==
    LET allocated_amt == Min(amount, outstanding) IN
    [references |-> <<[reference_doctype |-> pr.reference_doctype,
                       reference_name |-> pr.reference_name,
                       allocated_amount |-> allocated_amt]>>,
     warnings |-> IF allocated_amt < amount
                  THEN {[kind |-> "recorded as advance",
                         amount |-> amount - allocated_amt]}
                  ELSE {},
     note |-> IF allocated_amt < amount THEN "Allocated, Advance"
              ELSE "Allocated"]

AllocationFailureUnrecorded(ref_error) ==
    [references |-> <<>>, warnings |-> {}, note |-> ""]

\* except Exception as ref_error
AllocationFailed(ref_error) ==
    [references |-> <<>>,
     warnings |-> {[kind |-> "Reference allocation failed", amount |-> 0]},
     note |-> "Allocation skipped"]

\* Smart allocation against the Payment Request's reference document.
SmartAllocation(d, pr, amount) ==
    IF pr.reference_doctype = NoVal \/ pr.reference_name = NoVal
    THEN NoAllocation
    ELSE LET doc == d.docs[pr.reference_name] IN
         CASE pr.reference_doctype = "Purchase Order" ->
                  IF ~doc.exists
                  THEN AllocationFailed("DoesNotExistError")
                  ELSE LET outstanding ==
                               doc.grand_total - doc.advance_paid
                       IN IF outstanding > 0
                          THEN Allocated(pr, amount, outstanding)
                          ELSE [references |-> <<>>,
                                warnings |->
                                    {[kind |-> "PO has no outstanding",
                                      amount |-> 0]},
                                note |-> "PO fully paid"]
           [] pr.reference_doctype = "Purchase Invoice" ->
                  IF doc.exists /\ doc.outstanding_amount > 0
                  THEN Allocated(pr, amount, doc.outstanding_amount)
                  ELSE [references |-> <<>>,
                        warnings |-> {[kind |-> "PI already paid",
                                       amount |-> 0]},
                        note |-> "PI already paid"]
           [] OTHER -> NoAllocation

\* Account resolution, then the draft Payment Entry is built, allocated
\* and inserted.  The handler sets no payment_request link on the entry.
create_draft(d, l) ==
    LET pr == d.prs[l.pr_name]
        amount == Amount(l.req.body)
    IN
    IF ~get_cashfree_bank_account(d, pr.company)
    THEN [d |-> update_webhook_log(d, l.webhook_log,
                    [status |-> "Validation Failed"]),
          l |-> Finish(l, "error", 500, 0)]
    ELSE LET name == Len(d.pes) + 1
             d1 == update_webhook_log(d, l.webhook_log,
                       [status |-> "PE Draft Created"])
             allocation == SmartAllocation(d, pr, amount)
             d2 == [d1 EXCEPT !.pes = Append(@,
                       [reference_no |-> l.req.body.utr,
                        party |-> pr.party,
                        company |-> pr.company,
                        payment_request |-> NoVal,
                        paid_amount |-> amount,
                        references |-> allocation.references,
                        remarks |-> allocation.note,
                        docstatus |-> 0])]
         IN [d |-> update_webhook_log(d2, l.webhook_log,
                       [payment_entry |-> name]),
             l |-> [l EXCEPT !.pe = name,
                             !.warnings = allocation.warnings,
                             !.pc = "submit"]]

SubmitFailureDeletesDraft(d, l) ==
    [d |-> update_webhook_log([d EXCEPT !.pes = SubSeq(@, 1, Len(@) - 1)],
               l.webhook_log,
               [status |-> "Validation Failed",
                error_log |-> "PE Submission"]),
     l |-> Finish([l EXCEPT !.submit_error = TRUE],
                  "partial_success", 200, l.pe)]

\* except Exception as submit_error: the draft is kept.
submit_failed(d, l) ==
    [d |-> update_webhook_log(d, l.webhook_log,
               [status |-> "Validation Failed",
                error_log |-> "PE Submission"]),
     l |-> Finish([l EXCEPT !.submit_error = TRUE],
                  "partial_success", 200, l.pe)]

SubmittedWithoutStatusUpdate(d, l) ==
    [d |-> update_webhook_log([d EXCEPT !.pes[l.pe].docstatus = 1],
               l.webhook_log, [status |-> "PE Submitted"]),
     l |-> Finish(l, "success", 200, l.pe)]

\* pe.submit() succeeded: log, Payment Request and Cashfree Payout Log are
\* updated.
submit_succeeded(d, l) ==
    LET d1 == [d EXCEPT !.pes[l.pe].docstatus = 1]
        d2 == update_webhook_log(d1, l.webhook_log,
                  [status |-> "PE Submitted"])
        d3 == [d2 EXCEPT
                  !.prs[l.pr_name].custom_reconciliation_status = "Success"]
        d4 == [d3 EXCEPT !.payout_logs =
                  [n \in DOMAIN @ |->
                      IF n = l.pr_name THEN [@[n] EXCEPT !.status = "Success"]
                      ELSE @[n]]]
    IN [d |-> d4, l |-> Finish(l, "success", 200, l.pe)]

submit_payment_entry(d, l) ==
    IF l.req.submit_raises THEN submit_failed(d, l)
    ELSE submit_succeeded(d, l)

----------------------------------------------------------------------------
\* The handler

\* One step of cashfree_payout_webhook from the position l.pc.
Step(d, l) ==
    CASE l.pc = "log_check" -> create_webhook_log_check(d, l)
      [] l.pc = "log_write" -> create_webhook_log_write(d, l)
      [] l.pc = "verify" -> validate_signature(d, l)
      [] l.pc = "event" -> handle_event(d, l)
      [] l.pc = "find_pr" -> find_payment_request(d, l)
      [] l.pc = "dup_check" -> check_duplicate(d, l)
      [] l.pc = "draft" -> create_draft(d, l)
      [] l.pc = "submit" -> submit_payment_entry(d, l)

RECURSIVE Run(_, _)
\* A whole invocation: steps until the handler returns.
Run(d, l) ==
    IF l.pc = "done" THEN [d |-> d, l |-> l]
    ELSE LET s == Step(d, l) IN Run(s.d, s.l)

Entered(r) == [IdleLocal EXCEPT !.req = r, !.pc = "log_check"]

RECURSIVE Sum(_, _)
Sum(f, S) ==
    IF S = {} THEN 0
    ELSE LET x == CHOOSE y \in S : TRUE IN f[x] + Sum(f, S \ {x})

Deliveries == Sum(delivered, AllTransferIds)

Init ==
    /\ db \in [logs : {<<>>}, pes : {<<>>}, prs : {InitialPaymentRequests},
               payout_logs : {InitialPayoutLogs},
               accounts : AccountSetups, client_secret : {GatewaySecret},
               docs : {[n \in {ReferenceName} |-> NoDocument]}]
    /\ run = IdleLocal
    /\ procs = NotInUse
    /\ delivered = [t \in AllTransferIds |-> 0]
    /\ sig = NotInUse
    /\ call = NotInUse
    /\ payout = NotInUse
    /\ bulk = NotInUse

\* One delivery handled to completion.
cashfree_payout_webhook(r) ==
    /\ LET res == Run(db, Entered(r)) IN
          /\ db' = res.d
          /\ run' = res.l
    /\ delivered' = [delivered EXCEPT ![r.body.transferId] = @ + 1]
    /\ UNCHANGED <<procs, sig, call, payout, bulk>>

\* str.upper() of a reconciliation status.
Upper(status) ==
    CASE status = "Failed" -> "FAILED"
      [] status = "Reversed" -> "REVERSED"
      [] status = "Success" -> "SUCCESS"
      [] status = "Pending" -> "PENDING"
      [] OTHER -> status

\* trigger_payout_for_payment_request returns without a new payout: a
\* payout id is stored and the reconciliation status is not one a retry
\* clears it for.
PayoutBlocked(pr) ==
    LET existing_payout == pr.custom_cashfree_payout_id
        recon_status == Upper(pr.custom_reconciliation_status)
    IN /\ existing_payout # NoVal
       /\ recon_status \notin {"FAILED", "REVERSED", "REJECTED"}

\* Sequential: deliveries are handled one at a time.
Deliver ==
    /\ Deliveries < MaxDeliveries
    /\ \E r \in Requests : cashfree_payout_webhook(r)

Next == Deliver

Spec == Init /\ [][Next]_vars

\* Wide payloads: one Payment Request with a reference document, with and
\* without a configured client_secret.
InitWide ==
    /\ db \in {[logs |-> <<>>, pes |-> <<>>,
                prs |-> WidePaymentRequests(ref),
                payout_logs |-> InitialPayoutLogs,
                accounts |-> Companies, client_secret |-> secret,
                docs |-> [n \in {ReferenceName} |-> ref.doc]] :
                 ref \in WideReferences, secret \in {GatewaySecret, NoVal}}
    /\ run = IdleLocal
    /\ procs = NotInUse
    /\ delivered = [t \in AllTransferIds |-> 0]
    /\ sig = NotInUse
    /\ call = NotInUse
    /\ payout = NotInUse
    /\ bulk = NotInUse

DeliverWide ==
    /\ Deliveries < MaxWideDeliveries
    /\ \E r \in WideRequests : cashfree_payout_webhook(r)

NextWide == DeliverWide

SpecWide == InitWide /\ [][NextWide]_vars

\* Signature verification alone: two requests declare the same signature,
\* the gateway's digest of the first one or no digest at all, and both are
\* verified under the configured client_secret.
InitSig ==
    /\ db = [logs |-> <<>>, pes |-> <<>>, prs |-> InitialPaymentRequests,
             payout_logs |-> InitialPayoutLogs,
             accounts |-> Companies, client_secret |-> GatewaySecret,
             docs |-> [n \in {ReferenceName} |-> NoDocument]]
    /\ run = IdleLocal
    /\ procs = NotInUse
    /\ delivered = [t \in AllTransferIds |-> 0]
    /\ call = NotInUse
    /\ payout = NotInUse
    /\ bulk = NotInUse
    /\ \/ \E data1 \in SigData, data2 \in SigData :
              \E s \in {Hmac(GatewaySecret, PayloadV1(data1)), Forged} :
                  sig = SigCaseV1(data1, data2, s)
       \/ \E timestamp1 \in SigTimestamps, raw_body1 \in SigRawBodies,
             timestamp2 \in SigTimestamps, raw_body2 \in SigRawBodies :
              \E s \in {Hmac(GatewaySecret,
                              PayloadV2(timestamp1, raw_body1)), Forged} :
                  sig = SigCaseV2(timestamp1, raw_body1,
                                  timestamp2, raw_body2, s)

VerifyPairV1 ==
    /\ sig.scheme = "A"
    /\ ~sig.checked
    /\ sig' = [sig EXCEPT
                  !.checked = TRUE,
                  !.passed1 = verify_cashfree_signature_v1(
                                  db, sig.data1, sig.declared),
                  !.passed2 = verify_cashfree_signature_v1(
                                  db, sig.data2, sig.declared)]
    /\ UNCHANGED <<db, run, procs, delivered, call, payout, bulk>>

VerifyPairV2 ==
    /\ sig.scheme = "B"
    /\ ~sig.checked
    /\ sig' = [sig EXCEPT
                  !.checked = TRUE,
                  !.passed1 = verify_cashfree_signature_v2(
                                  db, sig.timestamp1, sig.raw_body1,
                                  sig.declared),
                  !.passed2 = verify_cashfree_signature_v2(
                                  db, sig.timestamp2, sig.raw_body2,
                                  sig.declared)]
    /\ UNCHANGED <<db, run, procs, delivered, call, payout, bulk>>

NextSig == VerifyPairV1 \/ VerifyPairV2

SpecSig == InitSig /\ [][NextSig]_vars

\* Concurrent: a worker receives a request ...
Receive(p, r) ==
    /\ Deliveries < MaxDeliveries
    /\ procs[p].pc \in {"idle", "done"}
    /\ procs' = [procs EXCEPT ![p] = Entered(r)]
    /\ delivered' = [delivered EXCEPT ![r.body.transferId] = @ + 1]
    /\ UNCHANGED <<db, run, sig, call, payout, bulk>>

\* ... and runs the handler one step at a time.
WorkerStep(p) ==
    /\ procs[p].pc \notin {"idle", "done"}
    /\ LET res == Step(db, procs[p]) IN
          /\ db' = res.d
          /\ procs' = [procs EXCEPT ![p] = res.l]
    /\ UNCHANGED <<run, delivered, sig, call, payout, bulk>>

\* The concurrent specification starts with every worker idle.
InitConc ==
    /\ db \in [logs : {<<>>}, pes : {<<>>}, prs : {InitialPaymentRequests},
               payout_logs : {InitialPayoutLogs},
               accounts : AccountSetups, client_secret : {GatewaySecret},
               docs : {[n \in {ReferenceName} |-> NoDocument]}]
    /\ run = IdleLocal
    /\ procs = [p \in Procs |-> IdleLocal]
    /\ delivered = [t \in AllTransferIds |-> 0]
    /\ sig = NotInUse
    /\ call = NotInUse
    /\ payout = NotInUse
    /\ bulk = NotInUse

NextConc ==
    \E p \in Procs :
        \/ \E r \in ConcRequests : Receive(p, r)
        \/ WorkerStep(p)

SpecConc == InitConc /\ [][NextConc]_vars

----------------------------------------------------------------------------
\* api/webhooks.py: the second payout status handler, and utils/retry_pe.py

\* The header signature is checked over timestamp + json.dumps(data); any
\* exception (no client_secret to encode) makes it fail.
verify_cashfree_signature(d, data, signature) ==
    LET secret == d.client_secret
        timestamp == IF data.timestamp = NoVal THEN "" ELSE data.timestamp
        payload == timestamp \o PayloadJson(data.data)
    IN IF secret = NoVal THEN FALSE
       ELSE HmacHex(secret, payload) = signature

\* if signature: ... -- the request is verified when the header is there.
SignatureChecked(signature) == signature # NoVal

\* status_mapping.get(str(status).upper(), "Pending")
payout_status_mapping(status) ==
    CASE status = "SUCCESS" -> "Success"
      [] status = "FAILED" -> "Failed"
      [] status = "REVERSED" -> "Reversed"
      [] status = "ERROR" -> "Failed"
      [] OTHER -> "Pending"

\* frappe.db.exists("Payment Entry", {payment_request, docstatus != 2})
LinkedPE(d, payment_request_name) ==
    FirstIndex({i \in DOMAIN d.pes :
                   /\ d.pes[i].payment_request = payment_request_name
                   /\ d.pes[i].docstatus # 2},
               1, Len(d.pes))

NotifierFailureEscapes(accountant_raises, vendor_raises) ==
    accountant_raises \/ vendor_raises

\* try: notify_accountant_for_review(...) except: pass, and the same for
\* send_payment_notification_to_vendor: no exception leaves the two calls.
NotifiersRaise(accountant_raises, vendor_raises) == FALSE

\* The draft Payment Entry of a Payment Request: the existing linked entry,
\* or a new draft; raised when the function ends with an exception.
\* raises tells which notifier raises in this call.
create_payment_entry_from_webhook(d, payment_request_name, utr, raises) ==
    LET pr == d.prs[payment_request_name]
        existing_pe == LinkedPE(d, payment_request_name)
        allocation == SmartAllocation(d, pr, pr.grand_total)
        name == Len(d.pes) + 1
        inserted == [d EXCEPT !.pes = Append(@,
                        [reference_no |-> utr,
                         party |-> pr.party,
                         company |-> pr.company,
                         payment_request |-> payment_request_name,
                         paid_amount |-> pr.grand_total,
                         references |-> allocation.references,
                         remarks |-> allocation.note,
                         docstatus |-> 0])]
    IN
    IF existing_pe # 0
    THEN [d |-> d, raised |-> FALSE, value |-> existing_pe]
    ELSE IF ~get_cashfree_bank_account(d, pr.company)
    THEN [d |-> d, raised |-> TRUE, value |-> 0]
    ELSE IF pr.party_type # "Supplier"
    THEN [d |-> d, raised |-> TRUE, value |-> 0]
    ELSE IF NotifiersRaise(raises.accountant, raises.vendor)
    THEN [d |-> inserted, raised |-> TRUE, value |-> 0]
    ELSE [d |-> inserted, raised |-> FALSE, value |-> name]

PayoutError(d, message) ==
    [d |-> d,
     resp |-> [status |-> "error", message |-> message,
               pe_created |-> FALSE, payment_entry |-> 0]]

\* The handler of api/webhooks.py for one request.
payout_status_webhook(d, req) ==
    LET signature == req.signature
        status == req.data.status
        utr == req.data.utr
        failure_reason == req.data.reason
        transfer_id == IF req.data.transfer_id = NoVal THEN NoVal
                       ELSE FindPaymentRequest(d, req.data.transfer_id)
        new_status == payout_status_mapping(status)
        d1 == [d EXCEPT
                  !.prs[transfer_id].custom_reconciliation_status =
                      new_status,
                  !.prs[transfer_id].custom_utr_number =
                      IF utr # NoVal THEN utr ELSE @,
                  !.prs[transfer_id].custom_failure_reason =
                      IF failure_reason # NoVal /\ new_status = "Failed"
                      THEN failure_reason ELSE @]
        d2 == [d1 EXCEPT !.payout_logs =
                  [n \in DOMAIN @ |->
                      IF n = transfer_id
                      THEN [status |-> status,
                            response_payload |-> PayloadJson(req.data)]
                      ELSE @[n]]]
        created == IF new_status = "Success"
                   THEN create_payment_entry_from_webhook(
                            d2, transfer_id, utr,
                            [accountant |-> req.accountant_raises,
                             vendor |-> req.vendor_raises])
                   ELSE [d |-> d2, raised |-> FALSE, value |-> 0]
        pe_created == IF created.raised THEN 0 ELSE created.value
    IN
    IF SignatureChecked(signature)
       /\ ~verify_cashfree_signature(d, req, signature)
    THEN PayoutError(d, "Invalid signature")
    ELSE IF req.data.transfer_id = NoVal
    THEN PayoutError(d, "No transfer_id in webhook")
    ELSE IF transfer_id = NoVal
    THEN PayoutError(d, "Payment Request not found")
    ELSE [d |-> created.d,
          resp |-> [status |-> "success",
                    message |-> "Webhook processed successfully",
                    pe_created |-> pe_created # 0,
                    payment_entry |-> pe_created]]

SuccessfulPRs(d) ==
    {n \in DOMAIN d.prs :
        /\ d.prs[n].custom_reconciliation_status = "Success"
        /\ d.prs[n].custom_utr_number # NoVal}

\* The SELECT of retry_failed_pe_creation: successful Cashfree payouts with
\* a UTR and no linked non-cancelled Payment Entry.
FailedPRs(d) ==
    {n \in DOMAIN d.prs :
        /\ d.prs[n].custom_reconciliation_status = "Success"
        /\ d.prs[n].mode_of_payment = "Cashfree"
        /\ ~\E i \in DOMAIN d.pes :
                 /\ d.pes[i].payment_request = n
                 /\ d.pes[i].docstatus # 2
        /\ d.prs[n].custom_utr_number # NoVal}

RECURSIVE RetryEach(_, _, _, _)
\* for idx, pr in enumerate(failed_prs, 1): try: create ... except: ...
\* d is the database so far and success the Payment Requests reported as
\* success so far.
RetryEach(d, failed_prs, raises, success) ==
    IF failed_prs = <<>> THEN [d |-> d, success |-> success]
    ELSE LET pr == Head(failed_prs)
             created == create_payment_entry_from_webhook(
                            d, pr, d.prs[pr].custom_utr_number, raises)
         IN RetryEach(created.d, Tail(failed_prs), raises,
                      IF created.raised THEN success ELSE success \cup {pr})

\* The rows of the SELECT in the order of their modified column.
Orders(names) ==
    {o \in UNION {[1..k -> names] : k \in {Cardinality(names)}} :
        \A i, j \in DOMAIN o : i # j => o[i] # o[j]}

EntryCalls == call.seq + Deliveries

\* All entry points that create a Payment Entry, one call at a time.
InitEntry ==
    /\ db \in [logs : {<<>>}, pes : {<<>>}, prs : EntryPaymentRequests,
               payout_logs : {InitialPayoutLogs},
               accounts : AccountSetups, client_secret : {GatewaySecret},
               docs : {[n \in {ReferenceName} |-> NoDocument]}]
    /\ run = IdleLocal
    /\ procs = NotInUse
    /\ delivered = [t \in AllTransferIds |-> 0]
    /\ sig = NotInUse
    /\ call = NoCall
    /\ payout = NotInUse
    /\ bulk = NotInUse

DeliverEntry ==
    /\ EntryCalls < MaxEntryCalls
    /\ \E r \in EntryRequests : cashfree_payout_webhook(r)

\* One request handled by api/webhooks.py.
webhooks_cashfree_payout_webhook ==
    /\ EntryCalls < MaxEntryCalls
    /\ \E req \in Notices :
          LET res == payout_status_webhook(db, req) IN
          /\ db' = res.d
          /\ call' = [seq |-> call.seq + 1, entry |-> "webhooks",
                      req |-> req, resp |-> res.resp, success |-> {}]
    /\ UNCHANGED <<run, procs, delivered, sig, payout, bulk>>

\* One run of the retry job.
retry_failed_pe_creation ==
    /\ EntryCalls < MaxEntryCalls
    /\ \E failed_prs \in Orders(FailedPRs(db)),
          accountant_raises \in BOOLEAN, vendor_raises \in BOOLEAN :
          LET res == RetryEach(db, failed_prs,
                               [accountant |-> accountant_raises,
                                vendor |-> vendor_raises], {})
          IN /\ db' = res.d
             /\ call' = [seq |-> call.seq + 1, entry |-> "retry",
                         req |-> [NoNotice EXCEPT
                                     !.accountant_raises = accountant_raises,
                                     !.vendor_raises = vendor_raises],
                         resp |-> NoCall.resp, success |-> res.success]
    /\ UNCHANGED <<run, procs, delivered, sig, payout, bulk>>

NextEntry ==
    \/ DeliverEntry
    \/ webhooks_cashfree_payout_webhook
    \/ retry_failed_pe_creation

SpecEntry == InitEntry /\ [][NextEntry]_vars

----------------------------------------------------------------------------
\* api/payouts.py, api/payment_validation.py, overrides/payment_request.py

\* What leaves a try block whose handlers are "except DoesNotExistError"
\* and "except Exception": frappe.throw raises ValidationError, which is
\* an Exception and is not a DoesNotExistError.
ExceptException(raised) == NoVal

\* .strip().lower() of a workflow state.
Lower(state) ==
    CASE state = "Queued" -> "queued"
      [] state = "Draft" -> "draft"
      [] OTHER -> state

\* not director_override or director_override == 0
OverrideMissing(doc) ==
    doc.custom_director_override = NoVal \/ doc.custom_director_override = "0"

\* The exception validate_director_override ends with, NoVal when it
\* returns.
validate_director_override(doc, po) ==
    IF doc.reference_doctype # "Purchase Order" \/ doc.reference_name = NoVal
    THEN NoVal
    ELSE IF ~po.exists
    THEN NoVal
    ELSE IF doc.grand_total > po.grand_total /\ OverrideMissing(doc)
    THEN ExceptException("ValidationError")
    ELSE NoVal

\* The exception validate_po_payment_limit ends with, NoVal when it returns.
validate_po_payment_limit(doc, po, total_existing_payments) ==
    IF doc.reference_doctype # "Purchase Order" THEN NoVal
    ELSE IF doc.reference_name = NoVal THEN NoVal
    ELSE IF doc.custom_director_override \notin {NoVal, "0"} THEN NoVal
    ELSE IF ~po.exists
    THEN "ValidationError"
    ELSE IF total_existing_payments + doc.grand_total > po.grand_total
    THEN ExceptException("ValidationError")
    ELSE NoVal

BankApprovalOnly(bank) ==
    bank.custom_bank_account_approval_status # "Approved"

\* if approval_status != "Approved" or verified != 1
bank_not_verified(bank) ==
    LET approval_status == bank.custom_bank_account_approval_status
        verified == bank.custom_bank_account_verified
    IN approval_status # "Approved" \/ verified # 1

\* The director-override section of the trigger: the exception that leaves
\* its try block, NoVal when the trigger goes on.
check_director_override(doc, po) ==
    IF doc.reference_doctype = "Purchase Order" /\ doc.reference_name # NoVal
    THEN IF ~po.exists THEN ExceptException("DoesNotExistError")
         ELSE IF doc.grand_total > po.grand_total /\ OverrideMissing(doc)
         THEN ExceptException("ValidationError")
         ELSE NoVal
    ELSE NoVal

\* status_mapping.get(str(raw_status).upper(), "Pending") of the transfer.
transfer_status_mapping(raw_status) ==
    CASE raw_status = "SUCCESS" -> "Success"
      [] raw_status \in {"FAILED", "ERROR", "REJECTED"} -> "Failed"
      [] raw_status = "REVERSED" -> "Reversed"
      [] OTHER -> "Pending"

\* standard_transfer_v2: (payout_id, status) of a 200 response.
standard_transfer_v2(doc, response) ==
    [payout_id |-> IF response.cf_transfer_id # NoVal
                   THEN response.cf_transfer_id ELSE doc.name,
     status |-> transfer_status_mapping(response.status)]

\* One call of the trigger for the state p under the gateway's response:
\* the state it leaves and the exception it ends with.
PayoutTriggered(p, response) ==
    LET doc == p.doc
        state == Lower(doc.workflow_state)
        retry == /\ doc.custom_cashfree_payout_id # NoVal
                 /\ ~PayoutBlocked(doc)
        cleared == IF retry
                   THEN [p EXCEPT
                            !.doc.custom_cashfree_payout_id = NoVal,
                            !.doc.custom_utr_number = NoVal,
                            !.doc.custom_reconciliation_status = "Pending"]
                   ELSE p
        with_beneficiary == [cleared EXCEPT !.beneficiaries = @ + 1]
        requested == [with_beneficiary EXCEPT !.transfers = @ + 1]
        transfer == standard_transfer_v2(doc, response)
        logged == [requested EXCEPT !.payout_logs = @ + 1]
        updated == [logged EXCEPT
                       !.doc.custom_cashfree_payout_id =
                           IF transfer.payout_id # doc.name
                           THEN transfer.payout_id ELSE @,
                       !.doc.custom_reconciliation_status = transfer.status]
    IN
    IF state \notin {"queued", "queue for payout", "queued for payout"}
    THEN [p |-> p, raised |-> NoVal]
    ELSE IF PayoutBlocked(doc)
    THEN [p |-> p, raised |-> NoVal]
    ELSE IF doc.grand_total <= 0
    THEN [p |-> cleared, raised |-> NoVal]
    ELSE IF doc.bank_account = NoVal
    THEN [p |-> cleared, raised |-> "ValidationError"]
    ELSE IF bank_not_verified(p.bank)
    THEN [p |-> cleared, raised |-> "ValidationError"]
    ELSE IF check_director_override(doc, p.po) # NoVal
    THEN [p |-> cleared, raised |-> check_director_override(doc, p.po)]
    ELSE IF ~response.beneficiary_ok
    THEN [p |-> cleared, raised |-> "ValidationError"]
    ELSE IF response.http_status # 200
    THEN [p |-> requested, raised |-> "ValidationError"]
    ELSE [p |-> updated, raised |-> NoVal]

Called(p, op, raised) ==
    [p EXCEPT !.seq = @ + 1, !.op = op, !.raised = raised]

\* One Payment Request: validation hooks and the payout trigger.
InitPayout ==
    /\ db = [logs |-> <<>>, pes |-> <<>>, prs |-> InitialPaymentRequests,
             payout_logs |-> InitialPayoutLogs,
             accounts |-> Companies, client_secret |-> GatewaySecret,
             docs |-> [n \in {ReferenceName} |-> NoDocument]]
    /\ run = IdleLocal
    /\ procs = NotInUse
    /\ delivered = [t \in AllTransferIds |-> 0]
    /\ sig = NotInUse
    /\ call = NotInUse
    /\ payout \in PayoutSetups
    /\ bulk = NotInUse

trigger_payout_for_payment_request ==
    /\ payout.seq < MaxPayoutCalls
    /\ \E response \in GatewayResponses :
          LET res == PayoutTriggered(payout, response) IN
          payout' = Called(res.p, "trigger_payout_for_payment_request",
                           res.raised)
    /\ UNCHANGED <<db, run, procs, delivered, sig, call, bulk>>

ValidateDirectorOverride ==
    /\ payout.seq < MaxPayoutCalls
    /\ payout' = Called(payout, "validate_director_override",
                        validate_director_override(payout.doc, payout.po))
    /\ UNCHANGED <<db, run, procs, delivered, sig, call, bulk>>

ValidatePoPaymentLimit ==
    /\ payout.seq < MaxPayoutCalls
    /\ payout' = Called(payout, "validate_po_payment_limit",
                        validate_po_payment_limit(
                            payout.doc, payout.po, payout.existing_prs_total))
    /\ UNCHANGED <<db, run, procs, delivered, sig, call, bulk>>

NextPayout ==
    \/ trigger_payout_for_payment_request
    \/ ValidateDirectorOverride
    \/ ValidatePoPaymentLimit

SpecPayout == InitPayout /\ [][NextPayout]_vars

----------------------------------------------------------------------------
\* api/bulk_actions.py

MaxBulkCalls == 2

\* Roles of frappe.session.user, the user's password and the passwords,
\* transfer modes and lists of names a caller sends; PR-9 names no Payment
\* Request.
UserRoles == {{}, {"Accounts Manager"}, {"Accounts Manager", "Director"}}
UserPassword == "secret"
Passwords == {UserPassword, "wrong"}
TransferModes == {"NEFT", "CASH"}
BulkLists ==
    {<<"PR-1">>, <<"PR-2", "PR-1">>, <<"PR-9", "PR-1">>, <<"PR-1", "PR-1">>}

\* Payment Requests before a bulk action: any workflow state; no payout yet,
\* or a payout that is pending, failed, reversed or settled.
BulkPayoutStates ==
    {[id |-> NoVal, status |-> "Pending", utr |-> NoVal],
     [id |-> "CF-1", status |-> "Pending", utr |-> NoVal],
     [id |-> "CF-1", status |-> "Failed", utr |-> NoVal],
     [id |-> "CF-1", status |-> "Reversed", utr |-> "U1"],
     [id |-> "CF-1", status |-> "Success", utr |-> "U1"]}
BulkRows(states, payouts) ==
    {[workflow_state |-> w, custom_cashfree_payout_id |-> p.id,
      custom_reconciliation_status |-> p.status,
      custom_utr_number |-> p.utr, custom_transfer_mode |-> NoVal] :
        w \in states, p \in payouts}

AnyRole(required_roles, user_roles) == TRUE

\* check_user_role: the user has at least one of the required roles.
check_user_role(required_roles, user_roles) ==
    \E role \in required_roles : role \in user_roles

\* verify_password: check_password(frappe.session.user, password) raises
\* for a wrong password.
verify_password(password) == password = UserPassword

\* frappe.get_doc("Payment Request", pr_name): the document as stored now.
get_doc(prs, pr_name) == prs[pr_name]

\* pr.save(ignore_permissions=True): the whole document is written, every
\* field with the value the document object holds.
save(prs, pr_name, pr) == [prs EXCEPT ![pr_name] = pr]

\* frappe.db.set_value("Payment Request", pr_name, field, value): the stored
\* row only; a document object loaded before keeps what it read.
set_value(prs, pr_name, field, value) ==
    [prs EXCEPT ![pr_name] =
        [f \in DOMAIN @ |-> IF f = field THEN value ELSE @[f]]]

\* The loop body of bulk_verify_requests.
verify_one(prs, pr_name) ==
    IF pr_name \notin DOMAIN prs THEN [prs |-> prs, outcome |-> "failed"]
    ELSE LET pr == get_doc(prs, pr_name) IN
         IF pr.workflow_state # "Draft"
         THEN [prs |-> prs, outcome |-> "skipped"]
         ELSE [prs |-> save(prs, pr_name,
                            [pr EXCEPT !.workflow_state = "Verified"]),
               outcome |-> "success"]

\* The loop body of bulk_approve_payments.
approve_one(prs, pr_name) ==
    IF pr_name \notin DOMAIN prs THEN [prs |-> prs, outcome |-> "failed"]
    ELSE LET pr == get_doc(prs, pr_name) IN
         IF pr.workflow_state # "Verified"
         THEN [prs |-> prs, outcome |-> "skipped"]
         ELSE [prs |-> save(prs, pr_name,
                            [pr EXCEPT !.workflow_state = "Approved"]),
               outcome |-> "success"]

\* The loop body of bulk_queue_payouts.
queue_one(prs, pr_name, transfer_mode) ==
    IF pr_name \notin DOMAIN prs THEN [prs |-> prs, outcome |-> "failed"]
    ELSE LET pr == get_doc(prs, pr_name)
             existing_payout == pr.custom_cashfree_payout_id
             recon_status == Upper(pr.custom_reconciliation_status)
         IN
         IF pr.workflow_state # "Approved"
         THEN [prs |-> prs, outcome |-> "skipped"]
         ELSE IF /\ existing_payout # NoVal
                 /\ recon_status \notin {"FAILED", "REVERSED", "REJECTED"}
         THEN [prs |-> prs, outcome |-> "skipped"]
         ELSE [prs |-> save(prs, pr_name,
                            [pr EXCEPT !.custom_transfer_mode = transfer_mode,
                                       !.workflow_state = "Queued"]),
               outcome |-> "success"]

\* The loop body of bulk_retry_payouts: the document is read, three fields
\* of the stored row are cleared, and the document is saved twice.
retry_one(prs, pr_name) ==
    IF pr_name \notin DOMAIN prs THEN [prs |-> prs, outcome |-> "failed"]
    ELSE LET pr == get_doc(prs, pr_name)
             recon_status == Upper(pr.custom_reconciliation_status)
         IN
         IF recon_status \notin {"FAILED", "REVERSED", "REJECTED"}
         THEN [prs |-> prs, outcome |-> "skipped"]
         ELSE LET prs1 == set_value(prs, pr_name,
                                    "custom_cashfree_payout_id", NoVal)
                  prs2 == set_value(prs1, pr_name,
                                    "custom_utr_number", NoVal)
                  prs3 == set_value(prs2, pr_name,
                                    "custom_reconciliation_status", "Pending")
                  approved == [pr EXCEPT !.workflow_state = "Approved"]
                  prs4 == save(prs3, pr_name, approved)
                  queued == [approved EXCEPT !.workflow_state = "Queued"]
              IN [prs |-> save(prs4, pr_name, queued),
                  outcome |-> "success"]

\* What one pass of the loop of the action op does with pr_name.
LoopBody(op, prs, pr_name, transfer_mode) ==
    CASE op = "bulk_verify_requests" -> verify_one(prs, pr_name)
      [] op = "bulk_approve_payments" -> approve_one(prs, pr_name)
      [] op = "bulk_queue_payouts" -> queue_one(prs, pr_name, transfer_mode)
      [] op = "bulk_retry_payouts" -> retry_one(prs, pr_name)

RECURSIVE ForEach(_, _, _, _, _)
\* for pr_name in payment_requests: ... results[outcome].append(pr_name)
ForEach(op, prs, payment_requests, transfer_mode, results) ==
    IF payment_requests = <<>>
    THEN [prs |-> prs, results |-> results, raised |-> NoVal]
    ELSE LET pr_name == Head(payment_requests)
             one == LoopBody(op, prs, pr_name, transfer_mode)
         IN ForEach(op, one.prs, Tail(payment_requests), transfer_mode,
                    [results EXCEPT ![one.outcome] = @ \cup {pr_name}])

\* frappe.throw before the loop: nothing is read or written.
Thrown(prs) ==
    [prs |-> prs, results |-> NoBulk.results, raised |-> "ValidationError"]

bulk_verify_requests(prs, user_roles, payment_requests) ==
    IF ~check_user_role({"Accounts Manager"}, user_roles) THEN Thrown(prs)
    ELSE ForEach("bulk_verify_requests", prs, payment_requests, NoVal,
                 NoBulk.results)

bulk_approve_payments(prs, user_roles, payment_requests) ==
    IF ~check_user_role({"Accounts Manager"}, user_roles) THEN Thrown(prs)
    ELSE ForEach("bulk_approve_payments", prs, payment_requests, NoVal,
                 NoBulk.results)

bulk_queue_payouts(prs, user_roles, payment_requests, password, transfer_mode) ==
    IF ~check_user_role({"Manager", "Director"}, user_roles) THEN Thrown(prs)
    ELSE IF ~verify_password(password) THEN Thrown(prs)
    ELSE IF transfer_mode \notin {"NEFT", "RTGS", "IMPS", "UPI"}
    THEN Thrown(prs)
    ELSE ForEach("bulk_queue_payouts", prs, payment_requests, transfer_mode,
                 NoBulk.results)

bulk_retry_payouts(prs, user_roles, payment_requests, password) ==
    IF ~check_user_role({"Manager", "Director"}, user_roles) THEN Thrown(prs)
    ELSE IF ~verify_password(password) THEN Thrown(prs)
    ELSE ForEach("bulk_retry_payouts", prs, payment_requests, NoVal,
                 NoBulk.results)

\* The state after a call of op with these arguments that ended as res.
BulkCall(op, user_roles, payment_requests, password, transfer_mode, res) ==
    [prs |-> res.prs, seq |-> bulk.seq + 1, op |-> op,
     payment_requests |-> payment_requests, user_roles |-> user_roles,
     password |-> password, transfer_mode |-> transfer_mode,
     results |-> res.results, raised |-> res.raised]

InitBulk ==
    /\ db = [logs |-> <<>>, pes |-> <<>>, prs |-> InitialPaymentRequests,
             payout_logs |-> InitialPayoutLogs,
             accounts |-> Companies, client_secret |-> GatewaySecret,
             docs |-> [n \in {ReferenceName} |-> NoDocument]]
    /\ run = IdleLocal
    /\ procs = NotInUse
    /\ delivered = [t \in AllTransferIds |-> 0]
    /\ sig = NotInUse
    /\ call = NotInUse
    /\ payout = NotInUse
    /\ \E first \in BulkRows({"Draft", "Verified", "Approved", "Queued"},
                              BulkPayoutStates),
          second \in BulkRows({"Approved"},
                               {p \in BulkPayoutStates :
                                   p.status \in {"Pending", "Failed"}}) :
          bulk = [NoBulk EXCEPT !.prs = [n \in BulkNames |->
                                            IF n = "PR-1" THEN first
                                            ELSE second]]

BulkVerifyRequests ==
    /\ bulk.seq < MaxBulkCalls
    /\ \E user_roles \in UserRoles, payment_requests \in BulkLists :
          bulk' = BulkCall("bulk_verify_requests", user_roles,
                           payment_requests, NoVal, NoVal,
                           bulk_verify_requests(bulk.prs, user_roles,
                                                payment_requests))
    /\ UNCHANGED <<db, run, procs, delivered, sig, call, payout>>

BulkApprovePayments ==
    /\ bulk.seq < MaxBulkCalls
    /\ \E user_roles \in UserRoles, payment_requests \in BulkLists :
          bulk' = BulkCall("bulk_approve_payments", user_roles,
                           payment_requests, NoVal, NoVal,
                           bulk_approve_payments(bulk.prs, user_roles,
                                                 payment_requests))
    /\ UNCHANGED <<db, run, procs, delivered, sig, call, payout>>

BulkQueuePayouts ==
    /\ bulk.seq < MaxBulkCalls
    /\ \E user_roles \in UserRoles, payment_requests \in BulkLists,
          password \in Passwords, transfer_mode \in TransferModes :
          bulk' = BulkCall("bulk_queue_payouts", user_roles,
                           payment_requests, password, transfer_mode,
                           bulk_queue_payouts(bulk.prs, user_roles,
                                              payment_requests, password,
                                              transfer_mode))
    /\ UNCHANGED <<db, run, procs, delivered, sig, call, payout>>

BulkRetryPayouts ==
    /\ bulk.seq < MaxBulkCalls
    /\ \E user_roles \in UserRoles, payment_requests \in BulkLists,
          password \in Passwords :
          bulk' = BulkCall("bulk_retry_payouts", user_roles,
                           payment_requests, password, NoVal,
                           bulk_retry_payouts(bulk.prs, user_roles,
                                              payment_requests, password))
    /\ UNCHANGED <<db, run, procs, delivered, sig, call, payout>>

NextBulk ==
    \/ BulkVerifyRequests
    \/ BulkApprovePayments
    \/ BulkQueuePayouts
    \/ BulkRetryPayouts

SpecBulk == InitBulk /\ [][NextBulk]_vars

----------------------------------------------------------------------------
\* Vocabulary of the properties.

\* The request passes the scheme selected by the evidence it carries.
ValidlySigned(r) ==
    IF r.body.signature # NoVal THEN BodySigned(r)
    ELSE HeaderSigned(r)

\* Payment Requests a transfer identifier refers to.
Matches(d, transfer_id) ==
    {n \in DOMAIN d.prs :
        n = transfer_id \/ d.prs[n].custom_cashfree_payout_id = transfer_id}

\* Webhook Log rows of a transfer identifier.
LogsFor(d, transfer_id) ==
    {i \in DOMAIN d.logs : d.logs[i].transfer_id = transfer_id}

\* Non-cancelled Payment Entries of a (UTR, party, company) triple.
PEsFor(d, utr, party, company) ==
    {i \in DOMAIN d.pes :
        /\ d.pes[i].reference_no = utr
        /\ d.pes[i].party = party
        /\ d.pes[i].company = company
        /\ d.pes[i].docstatus # 2}

\* This step is a delivery handled to completion (Spec).
Handled == delivered' # delivered

Quiescent == \A p \in Procs : procs[p].pc \in {"idle", "done"}

\* This step is a call of the api/webhooks.py handler, a run of the retry
\* job.
WebhooksCalled == call'.seq # call.seq /\ call'.entry = "webhooks"
RetryRun == call'.seq # call.seq /\ call'.entry = "retry"

\* Non-cancelled Payment Entries linked to a Payment Request.
LinkedPEs(d, n) ==
    {i \in DOMAIN d.pes :
        d.pes[i].payment_request = n /\ d.pes[i].docstatus # 2}

\* This step is a call of the named function on the Payment Request.
PayoutCalled(op) == payout'.seq # payout.seq /\ payout'.op = op

\* The Payment Request refers to an existing Purchase Order.
AgainstPurchaseOrder ==
    /\ payout.doc.reference_doctype = "Purchase Order"
    /\ payout.doc.reference_name # NoVal
    /\ payout.po.exists

\* (status, HTTP code) pairs the api/webhook.py handler may answer with.
ResponsePairs ==
    {<<"success", 200>>, <<"ignored", 200>>, <<"duplicate", 200>>,
     <<"partial_success", 200>>, <<"error", 400>>, <<"error", 401>>,
     <<"error", 404>>, <<"error", 500>>}

----------------------------------------------------------------------------
\* C1: after any sequence of validly signed TRANSFER_SUCCESS deliveries
\* handled one at a time, at most one non-cancelled Payment Entry exists per
\* (reference_no = UTR, party, company); a redelivery whose UTR already has a
\* non-cancelled Payment Entry for that payee creates no Payment Entry and
\* returns the existing entry's id.
C1_AtMostOne ==
    \A utr \in Utrs, n \in PaymentRequests :
        Cardinality(PEsFor(db, utr, db.prs[n].party, db.prs[n].company)) <= 1

C1_RedeliveryStep ==
    (/\ Handled
     /\ ValidlySigned(run'.req)
     /\ run'.req.body.event = "TRANSFER_SUCCESS")
    => \A n \in Matches(db, run'.req.body.transferId), i \in DOMAIN db.pes :
          (/\ db.pes[i].reference_no = run'.req.body.utr
           /\ db.pes[i].party = db.prs[n].party
           /\ db.pes[i].docstatus # 2)
          => /\ db'.pes = db.pes
             /\ run'.resp.payment_entry = i

C1_Idempotent == []C1_AtMostOne /\ [][C1_RedeliveryStep]_vars

C1_Witness ==
    /\ run.existing_pe # 0
    /\ run.resp.payment_entry = run.existing_pe
    /\ Len(db.pes) = 1

\* C2: after N >= 1 deliveries (one at a time) carrying the same transfer
\* identifier, exactly one Cashfree Webhook Log row exists for it and its
\* retry_count is N - 1, whatever the outcome of each delivery.
C2_RetryCount ==
    \A t \in TransferIds :
        delivered[t] >= 1 =>
            \E i \in DOMAIN db.logs :
                /\ LogsFor(db, t) = {i}
                /\ db.logs[i].retry_count = delivered[t] - 1

C2_Witness ==
    \E t \in TransferIds, i \in DOMAIN db.logs :
        /\ delivered[t] >= 2
        /\ db.logs[i].transfer_id = t
        /\ db.logs[i].retry_count >= 1

\* C3: a request without any signature, or whose signature fails
\* verification, is answered 401, its Webhook Log row gets status
\* 'Signature Failed', no Payment Entry is created and no Payment Request
\* field changes.
C3_Step ==
    (Handled /\ ~ValidlySigned(run'.req))
    => /\ run'.resp.code = 401
       /\ LogsFor(db', run'.req.body.transferId) # {}
       /\ \A i \in LogsFor(db', run'.req.body.transferId) :
              db'.logs[i].status = "Signature Failed"
       /\ db'.pes = db.pes
       /\ db'.prs = db.prs

C3_SignatureRejected == [][C3_Step]_vars

C3_Witness ==
    /\ run.pc = "done"
    /\ run.req.body.signature = Forged
    /\ HeaderSigned(run.req)
    /\ run.req.body.event = "TRANSFER_FAILED"
    /\ run.req.body.transferId = "PR-1"
    /\ run.resp.code = 401

\* C4: after a 401 rejection the Webhook Log row of the request's transfer
\* identifier holds the raw body of the rejected request, also when the
\* identifier was logged by an earlier delivery with a different body.
C4_RawPayloadOfRejected ==
    run.resp.code = 401 =>
        /\ LogsFor(db, run.req.body.transferId) # {}
        /\ \A i \in LogsFor(db, run.req.body.transferId) :
               db.logs[i].raw_payload = run.req.body

\* C5: two validly signed TRANSFER_SUCCESS deliveries with the same UTR, payee
\* and company processed concurrently leave at most one non-cancelled
\* Payment Entry for the triple once both have returned.
C5_ConcurrentAtMostOne ==
    Quiescent =>
        \A utr \in Utrs, n \in PaymentRequests :
            Cardinality(PEsFor(db, utr, db.prs[n].party,
                               db.prs[n].company)) <= 1

\* C6: deliveries with the same transfer identifier running
\* create_webhook_log concurrently leave exactly one Webhook Log row for it,
\* whose retry_count counts every delivery after the first.
C6_ConcurrentRetryCount ==
    Quiescent =>
        \A t \in TransferIds :
            delivered[t] >= 1 =>
                /\ Cardinality(LogsFor(db, t)) = 1
                /\ \A i \in LogsFor(db, t) :
                       db.logs[i].retry_count = delivered[t] - 1

\* C7: a validly signed TRANSFER_SUCCESS for a Payment Request without
\* reference document, with a resolvable Cashfree account, no prior Payment
\* Entry for its UTR and a submit that succeeds ends with the Payment Entry
\* submitted, response success/200 carrying its id, Webhook Log status
\* 'PE Submitted' and the Payment Request's reconciliation status 'Success'.
C7_Step ==
    \A n \in Matches(db, run'.req.body.transferId) :
        (/\ Handled
         /\ ValidlySigned(run'.req)
         /\ run'.req.body.event = "TRANSFER_SUCCESS"
         /\ ~run'.req.submit_raises
         /\ db.prs[n].reference_doctype = NoVal
         /\ db.prs[n].company \in db.accounts
         /\ \A i \in DOMAIN db.pes :
                db.pes[i].reference_no # run'.req.body.utr)
        => LET pe == run'.resp.payment_entry IN
           /\ pe \in DOMAIN db'.pes
           /\ pe \notin DOMAIN db.pes
           /\ db'.pes[pe].docstatus = 1
           /\ db'.pes[pe].reference_no = run'.req.body.utr
           /\ db'.pes[pe].party = db.prs[n].party
           /\ db'.pes[pe].company = db.prs[n].company
           /\ run'.resp.status = "success"
           /\ run'.resp.code = 200
           /\ \A i \in LogsFor(db', run'.req.body.transferId) :
                  /\ db'.logs[i].status = "PE Submitted"
                  /\ db'.logs[i].payment_entry = pe
           /\ db'.prs[n].custom_reconciliation_status = "Success"

C7_SuccessScenario == [][C7_Step]_vars

C7_Witness ==
    /\ run.resp.status = "success"
    /\ run.pe # 0
    /\ db.pes[run.pe].docstatus = 1
    /\ db.prs[run.pr_name].custom_reconciliation_status = "Success"

\* C8: when pe.submit() raises, the Payment Entry inserted just before is
\* still an unsubmitted draft, the Webhook Log row has status
\* 'Validation Failed' with the submit error recorded, the Payment Request's
\* reconciliation status is not set, and the response is
\* partial_success/200.
C8_Step ==
    (Handled /\ run'.submit_error)
    => LET pe == run'.pe IN
       /\ pe \notin DOMAIN db.pes
       /\ pe \in DOMAIN db'.pes
       /\ db'.pes[pe].docstatus = 0
       /\ \A i \in LogsFor(db', run'.req.body.transferId) :
              /\ db'.logs[i].status = "Validation Failed"
              /\ db'.logs[i].error_log = "PE Submission"
              /\ db'.logs[i].payment_entry = pe
       /\ db'.prs = db.prs
       /\ run'.resp = [status |-> "partial_success", code |-> 200,
                       payment_entry |-> pe]

C9_Step ==
    LET r == run'.req
        expected == IF r.body.event = "TRANSFER_FAILED" THEN "Failed"
                    ELSE "Reversed"
    IN
    (/\ Handled
     /\ ValidlySigned(r)
     /\ r.body.event # "TRANSFER_SUCCESS")
    => IF r.body.event \in {"TRANSFER_FAILED", "TRANSFER_REVERSED"}
       THEN /\ db'.pes = db.pes
            /\ \A n \in PaymentRequests :
                  IF n \in Matches(db, r.body.transferId)
                  THEN db'.prs[n] =
                         [db.prs[n] EXCEPT
                            !.custom_reconciliation_status = expected,
                            !.custom_failure_reason = r.body.reason]
                  ELSE db'.prs[n] = db.prs[n]
            /\ \A i \in LogsFor(db', r.body.transferId) :
                   db'.logs[i].status = "Ignored"
            /\ run'.resp.status = "ignored"
            /\ run'.resp.code = 200
       ELSE db'.prs = db.prs

C9_NonSuccessEvents == [][C9_Step]_vars

C9_Witness ==
    /\ run.resp.status = "ignored"
    /\ run.req.body.event = "TRANSFER_REVERSED"
    /\ run.req.body.transferId = "TX7"
    /\ db.prs["PR-2"].custom_reconciliation_status = "Reversed"
    /\ db.prs["PR-2"].custom_failure_reason = "R1"

\* C10: a validly signed TRANSFER_SUCCESS whose transfer identifier matches
\* no Payment Request by name or by custom_cashfree_payout_id is answered
\* 404, creates no Payment Entry, changes no Payment Request, and its
\* Webhook Log row exists with status 'Validation Failed'.
C10_Step ==
    (/\ Handled
     /\ ValidlySigned(run'.req)
     /\ run'.req.body.event = "TRANSFER_SUCCESS"
     /\ Matches(db, run'.req.body.transferId) = {})
    => /\ run'.resp.code = 404
       /\ db'.pes = db.pes
       /\ db'.prs = db.prs
       /\ LogsFor(db', run'.req.body.transferId) # {}
       /\ \A i \in LogsFor(db', run'.req.body.transferId) :
              db'.logs[i].status = "Validation Failed"

C10_ReferenceNotFound == [][C10_Step]_vars

C10_Witness ==
    /\ run.resp.code = 404
    /\ run.req.body.transferId = "ZZ"
    /\ LogsFor(db, "ZZ") # {}

\* The Payment Request's allocation raises: its Purchase Order is missing.
AllocationRaises(d, n) ==
    /\ d.prs[n].reference_doctype = "Purchase Order"
    /\ d.prs[n].reference_name # NoVal
    /\ ~d.docs[d.prs[n].reference_name].exists

\* C11: when there is no Cashfree account for the company of the Payment
\* Request of a validly signed TRANSFER_SUCCESS, handling it creates no
\* Payment Entry, draft or submitted, and leaves the Payment Requests as
\* they were.
C11_Step ==
    \A n \in Matches(db, run'.req.body.transferId) :
        (/\ Handled
         /\ run'.req.body.event = "TRANSFER_SUCCESS"
         /\ db.prs[n].company \notin db.accounts
         /\ ValidlySigned(run'.req))
        => /\ db'.pes = db.pes
           /\ db'.prs = db.prs

C11_NoAccountNoEntry == [][C11_Step]_vars

C11_Witness ==
    /\ run.pr_name # NoVal
    /\ db.prs[run.pr_name].company \notin db.accounts
    /\ run.req.body.event = "TRANSFER_SUCCESS"
    /\ run.resp.code = 500
    /\ db.pes = <<>>
    /\ db.prs[run.pr_name].custom_reconciliation_status = "Pending"

\* C12: a validly signed TRANSFER_SUCCESS whose Payment Request is found is
\* answered HTTP 200 when account resolution fails, when reference
\* allocation fails and when submit fails.
C12_Step ==
    \A n \in Matches(db, run'.req.body.transferId) :
        (/\ Handled
         /\ ValidlySigned(run'.req)
         /\ run'.req.body.event = "TRANSFER_SUCCESS"
         /\ \/ db.prs[n].company \notin db.accounts
            \/ AllocationRaises(db, n)
            \/ run'.req.submit_raises)
        => run'.resp.code = 200

C12_FailuresAnswered200 == [][C12_Step]_vars

\* The request passes verification under the configured client_secret.
Verified(d, r) == d.client_secret = GatewaySecret /\ ValidlySigned(r)

\* This step inserted the draft Payment Entry run'.pe.
DraftBuilt ==
    /\ Handled
    /\ run'.pe # 0
    /\ run'.pe \notin DOMAIN db.pes
    /\ run'.pe \in DOMAIN db'.pes

\* The reference document of a Payment Request is a Purchase Order or a
\* Purchase Invoice that exists, and what is outstanding on it.
HasOutstanding(d, n) ==
    /\ d.prs[n].reference_doctype \in {"Purchase Order", "Purchase Invoice"}
    /\ d.prs[n].reference_name # NoVal
    /\ d.docs[d.prs[n].reference_name].exists
OutstandingOf(d, n) ==
    LET doc == d.docs[d.prs[n].reference_name] IN
    IF d.prs[n].reference_doctype = "Purchase Order"
    THEN doc.grand_total - doc.advance_paid
    ELSE doc.outstanding_amount

\* C13: the draft carries at most one allocation line.  For a Purchase
\* Order (outstanding = grand_total - advance_paid) or Purchase Invoice
\* (outstanding_amount) with outstanding > 0 the line allocates
\* min(amount, outstanding), and a positive amount - allocated is reported
\* as advance in a warning; with outstanding <= 0, or without reference
\* document, there is no line and the whole amount is advance.
C13_Step ==
    DraftBuilt =>
        LET pe == db'.pes[run'.pe]
            n == run'.pr_name
            amount == pe.paid_amount
            outstanding == OutstandingOf(db, n)
            expected == IF amount <= outstanding THEN amount ELSE outstanding
        IN /\ Len(pe.references) <= 1
           /\ (HasOutstanding(db, n) /\ outstanding > 0) =>
                  /\ Len(pe.references) = 1
                  /\ pe.references[1].reference_name = db.prs[n].reference_name
                  /\ pe.references[1].allocated_amount = expected
                  /\ amount - expected > 0 =>
                         [kind |-> "recorded as advance",
                          amount |-> amount - expected] \in run'.warnings
           /\ (\/ HasOutstanding(db, n) /\ outstanding <= 0
               \/ db.prs[n].reference_doctype = NoVal) =>
                  pe.references = <<>>

C13_SmartAllocation == [][C13_Step]_vars

\* Outstanding 1000, amount 1500: allocated 1000, advance 500.
C13_Witness ==
    /\ run.pe \in DOMAIN db.pes
    /\ HasOutstanding(db, run.pr_name)
    /\ OutstandingOf(db, run.pr_name) = 1000
    /\ db.pes[run.pe].paid_amount = 1500
    /\ Len(db.pes[run.pe].references) = 1
    /\ db.pes[run.pe].references[1].allocated_amount = 1000
    /\ [kind |-> "recorded as advance", amount |-> 500] \in run.warnings

\* C14: when resolving the reference document raises during allocation, the
\* Payment Entry is still inserted, with no allocation line, and the
\* allocation failure is recorded in a warning and in the remarks.
C14_Step ==
    (/\ Handled
     /\ Verified(db, run'.req)
     /\ run'.pr_name # NoVal
     /\ AllocationRaises(db, run'.pr_name)
     /\ \A i \in DOMAIN db.pes : db.pes[i].reference_no # run'.req.body.utr)
    => /\ DraftBuilt
       /\ db'.pes[run'.pe].references = <<>>
       /\ db'.pes[run'.pe].paid_amount = Amount(run'.req.body)
       /\ db'.pes[run'.pe].remarks = "Allocation skipped"
       /\ \E w \in run'.warnings : w.kind = "Reference allocation failed"

C14_AllocationFailureKeepsDraft == [][C14_Step]_vars

C14_Witness ==
    /\ run.pe \in DOMAIN db.pes
    /\ AllocationRaises(db, run.pr_name)
    /\ db.pes[run.pe].references = <<>>
    /\ db.pes[run.pe].remarks = "Allocation skipped"

\* C15: while no client_secret is configured, both verifiers return false,
\* so every request that carries a signature is answered HTTP 401 and
\* neither a Payment Entry nor a Payment Request is written.
C15_Step ==
    (/\ Handled
     /\ db.client_secret = NoVal
     /\ \/ run'.req.body.signature # NoVal
        \/ run'.req.sig_header # NoVal)
    => /\ ~verify_cashfree_signature_v1(db, run'.req.body,
                                        run'.req.body.signature)
       /\ ~verify_cashfree_signature_v2(db, run'.req.timestamp,
                                        run'.req.raw_body,
                                        run'.req.sig_header)
       /\ run'.resp.code = 401
       /\ db'.pes = db.pes
       /\ db'.prs = db.prs

C15_NoSecretFailsClosed == [][C15_Step]_vars

C15_Witness ==
    /\ db.client_secret = NoVal
    /\ run.req.sig_header =
           Hmac("", PayloadV2(run.req.timestamp, run.req.raw_body))
    /\ run.resp.code = 401
    /\ db.pes = <<>>

\* The two requests of the pair differ in the signed content: scheme A, a
\* key or value among the fields other than signature, cmd and doctype;
\* scheme B, the x-webhook-timestamp header or the raw body.
ContentDiffers ==
    IF sig.scheme = "A"
    THEN \E k \in DOMAIN sig.data1 \ {"signature", "cmd", "doctype"} :
             sig.data1[k] # sig.data2[k]
    ELSE sig.timestamp1 # sig.timestamp2 \/ sig.raw_body1 # sig.raw_body2

\* The string each scheme signs, written out for the keys of SigData.
ValueOf(data, k) == IF data[k] = NoVal THEN "" ELSE data[k]
SignedString(scheme, data, timestamp, raw_body) ==
    IF scheme = "A"
    THEN ValueOf(data, "event") \o ValueOf(data, "transferId")
         \o ValueOf(data, "transfer_id")
    ELSE timestamp \o raw_body
SignedStringDiffers ==
    SignedString(sig.scheme, sig.data1, sig.timestamp1, sig.raw_body1)
    # SignedString(sig.scheme, sig.data2, sig.timestamp2, sig.raw_body2)

\* C16 as stated: if a request passes verification, every request with the
\* same declared signature that differs in the signed content fails.
C16_ContentBound ==
    (sig.checked /\ sig.passed1 /\ ContentDiffers) => ~sig.passed2

\* C16, amended: if a request passes verification, a request with the same
\* declared signature fails exactly when the string its scheme signs
\* differs: scheme A, the values of the fields other than signature, cmd and
\* doctype joined in the order of their sorted keys; scheme B, the timestamp
\* followed by the raw body.
C16_SignedStringBound ==
    (sig.checked /\ sig.passed1) => (~sig.passed2 <=> SignedStringDiffers)

C16_Witness ==
    /\ sig.checked
    /\ sig.scheme = "A"
    /\ sig.passed1
    /\ sig.data1.transferId # sig.data2.transferId
    /\ SignedStringDiffers
    /\ ~sig.passed2

\* C17: a request whose header signature is correct for its timestamp and
\* body, but whose x-webhook-timestamp is older than the clock-skew window,
\* is rejected: no Payment Entry is created and no Payment Request changes.
C17_Step ==
    (/\ Handled
     /\ db.client_secret = GatewaySecret
     /\ run'.req.body.signature = NoVal
     /\ HeaderSigned(run'.req)
     /\ run'.req.timestamp = StaleTimestamp)
    => /\ run'.resp.code \in {400, 401}
       /\ db'.pes = db.pes
       /\ db'.prs = db.prs

C17_StaleTimestampRejected == [][C17_Step]_vars

\* C18: the identifier CashfreeAPIManager.create_transfer sends to the
\* gateway for a Payment Request (its name with '_' for every '-') resolves
\* back to that Payment Request when no payout id is stored on it.
C18_Step ==
    \A n \in PaymentRequests :
        (/\ Handled
         /\ Verified(db, run'.req)
         /\ run'.req.body.event = "TRANSFER_SUCCESS"
         /\ run'.req.body.transferId = GatewayTransferId(n)
         /\ db.prs[n].custom_cashfree_payout_id = NoVal)
        => run'.pr_name = n

C18_GatewayIdResolves == [][C18_Step]_vars

\* C19 as stated: after a validly signed TRANSFER_FAILED or
\* TRANSFER_REVERSED is handled, the matched Payment Request's
\* custom_cashfree_payout_id is cleared.
C19_ClearStep ==
    \A n \in Matches(db, run'.req.body.transferId) :
        (/\ Handled
         /\ run'.req.body.event \in {"TRANSFER_FAILED", "TRANSFER_REVERSED"}
         /\ ValidlySigned(run'.req))
        => db'.prs[n].custom_cashfree_payout_id = NoVal

C19_PayoutIdCleared == [][C19_ClearStep]_vars

\* C19, amended: handling a validly signed TRANSFER_FAILED or
\* TRANSFER_REVERSED leaves the matched Payment Request's
\* custom_cashfree_payout_id as it was, and leaves the Payment Request in a
\* reconciliation status for which trigger_payout_for_payment_request does
\* not return early but clears the identifier itself and pays out again.
C19_KeepStep ==
    \A n \in Matches(db, run'.req.body.transferId) :
        (/\ Handled
         /\ run'.req.body.event \in {"TRANSFER_FAILED", "TRANSFER_REVERSED"}
         /\ ValidlySigned(run'.req))
        => /\ db'.prs[n].custom_cashfree_payout_id =
                  db.prs[n].custom_cashfree_payout_id
           /\ ~PayoutBlocked(db'.prs[n])

C19_PayoutIdKeptRetryOpen == [][C19_KeepStep]_vars

C19_Witness ==
    /\ run.req.body.event = "TRANSFER_REVERSED"
    /\ run.req.body.transferId = "TX7"
    /\ run.resp.status = "ignored"
    /\ db.prs["PR-2"].custom_cashfree_payout_id = "TX7"
    /\ db.prs["PR-2"].custom_reconciliation_status = "Reversed"
    /\ ~PayoutBlocked(db.prs["PR-2"])

\* C20: a validly signed TRANSFER_SUCCESS that carries no amount is answered
\* HTTP 400 and creates no Payment Entry.
C20_Step ==
    (/\ Handled
     /\ Verified(db, run'.req)
     /\ run'.req.body.event = "TRANSFER_SUCCESS"
     /\ run'.req.body.amount = NoVal)
    => /\ run'.resp.code = 400
       /\ db'.pes = db.pes

C20_MissingAmountRejected == [][C20_Step]_vars

----------------------------------------------------------------------------
\* C21: a validly signed notification without a transfer identifier is
\* answered HTTP 400 by the api/webhook.py handler whatever its event type,
\* creates no Payment Entry and changes no Payment Request.
C21_Step ==
    (/\ Handled
     /\ run'.req.body.transferId = NoVal
     /\ ValidlySigned(run'.req))
    => /\ run'.resp.code = 400
       /\ db'.pes = db.pes
       /\ db'.prs = db.prs

C21_NoTransferIdRejected == [][C21_Step]_vars

----------------------------------------------------------------------------
\* C22: whatever the order in which the api/webhook.py handler, the
\* api/webhooks.py handler and the retry job run on the same successful
\* payout, no two non-cancelled Payment Entries share UTR, payee and company.
C22_OnePerTripleAcrossEntryPoints ==
    \A i, j \in DOMAIN db.pes :
        (/\ db.pes[i].docstatus # 2
         /\ db.pes[j].docstatus # 2
         /\ db.pes[i].reference_no = db.pes[j].reference_no
         /\ db.pes[i].party = db.pes[j].party
         /\ db.pes[i].company = db.pes[j].company)
        => i = j

----------------------------------------------------------------------------
\* C23: a request to the api/webhooks.py handler without an
\* x-webhook-signature header is rejected: it changes no Payment Request
\* field and no Cashfree Payout Log row and creates no Payment Entry.
C23_Step ==
    (WebhooksCalled /\ call'.req.signature = NoVal)
    => /\ call'.resp.status = "error"
       /\ db'.prs = db.prs
       /\ db'.payout_logs = db.payout_logs
       /\ db'.pes = db.pes

C23_UnsignedRejected == [][C23_Step]_vars

----------------------------------------------------------------------------
\* C24: for a Payment Request against a Purchase Order whose amount exceeds
\* the Purchase Order's grand total without custom_director_override,
\* trigger_payout_for_payment_request creates no beneficiary and sends no
\* transfer request, and a call that gets as far as the check ends with a
\* blocking error.
C24_Step ==
    (/\ PayoutCalled("trigger_payout_for_payment_request")
     /\ AgainstPurchaseOrder
     /\ payout.doc.grand_total > payout.po.grand_total
     /\ OverrideMissing(payout.doc))
    => /\ payout'.beneficiaries = payout.beneficiaries
       /\ payout'.transfers = payout.transfers
       /\ (/\ Lower(payout.doc.workflow_state) = "queued"
           /\ ~PayoutBlocked(payout.doc)
           /\ ~bank_not_verified(payout.bank))
          => payout'.raised # NoVal

C24_OverPurchaseOrderBlocked == [][C24_Step]_vars

----------------------------------------------------------------------------
\* C25: once a transfer request has been sent for a Payment Request, a
\* further call of trigger_payout_for_payment_request sends another one only
\* if the reconciliation status is Failed, Reversed or Rejected, whatever
\* transfer id the gateway returned before.
C25_Step ==
    (/\ PayoutCalled("trigger_payout_for_payment_request")
     /\ payout.transfers >= 1
     /\ payout'.transfers > payout.transfers)
    => Upper(payout.doc.custom_reconciliation_status)
           \in {"FAILED", "REVERSED", "REJECTED"}

C25_SecondTransferOnlyAfterFailure == [][C25_Step]_vars

----------------------------------------------------------------------------
\* C26: validate_po_payment_limit raises a blocking validation error
\* whenever the non-cancelled Payment Requests of a Purchase Order, the
\* current one included, sum to more than its grand total and
\* custom_director_override is not set on the current one.
C26_Step ==
    (/\ PayoutCalled("validate_po_payment_limit")
     /\ AgainstPurchaseOrder
     /\ payout.existing_prs_total + payout.doc.grand_total
            > payout.po.grand_total
     /\ OverrideMissing(payout.doc))
    => payout'.raised = "ValidationError"

C26_PaymentLimitEnforced == [][C26_Step]_vars

----------------------------------------------------------------------------
\* C27: validate_director_override raises a blocking error for every
\* Payment Request against an existing Purchase Order whose amount exceeds
\* the Purchase Order's grand total while custom_director_override is unset
\* or 0.
C27_Step ==
    (/\ PayoutCalled("validate_director_override")
     /\ AgainstPurchaseOrder
     /\ payout.doc.grand_total > payout.po.grand_total
     /\ OverrideMissing(payout.doc))
    => payout'.raised = "ValidationError"

C27_DirectorOverrideRequired == [][C27_Step]_vars

----------------------------------------------------------------------------
\* C28: every invocation of the api/webhook.py handler returns one of the
\* pairs success/200, ignored/200, duplicate/200, partial_success/200,
\* error/400, error/401, error/404, error/500, and a delivery whose UTR
\* already has a Payment Entry is answered with status 'duplicate'.
C28_Step ==
    Handled
    => /\ <<run'.resp.status, run'.resp.code>> \in ResponsePairs
       /\ (/\ ValidlySigned(run'.req)
           /\ run'.req.body.event = "TRANSFER_SUCCESS"
           /\ \E n \in Matches(db, run'.req.body.transferId) :
                  PEsFor(db, run'.req.body.utr, db.prs[n].party,
                         db.prs[n].company) # {})
          => run'.resp.status = "duplicate"

C28_ResponsesAndDuplicate == [][C28_Step]_vars

----------------------------------------------------------------------------
\* C29: in create_payment_entry_from_webhook a failing notifier changes
\* nothing: for a successful payout the linked Payment Entry is returned when
\* there is one, and otherwise one draft is inserted and its name returned,
\* whether notify_accountant_for_review and
\* send_payment_notification_to_vendor succeed or raise.
C29_Step ==
    \A n \in PaymentRequests :
        (/\ WebhooksCalled
         /\ call'.resp.status = "success"
         /\ call'.req.data.status = "SUCCESS"
         /\ n = FindPaymentRequest(db, call'.req.data.transfer_id))
        => IF LinkedPE(db, n) # 0
           THEN /\ db'.pes = db.pes
                /\ call'.resp.payment_entry = LinkedPE(db, n)
           ELSE /\ Len(db'.pes) = Len(db.pes) + 1
                /\ SubSeq(db'.pes, 1, Len(db.pes)) = db.pes
                /\ db'.pes[Len(db'.pes)].payment_request = n
                /\ db'.pes[Len(db'.pes)].reference_no = call'.req.data.utr
                /\ db'.pes[Len(db'.pes)].docstatus = 0
                /\ call'.resp.pe_created
                /\ call'.resp.payment_entry = Len(db'.pes)

C29_NotifierFailuresSwallowed == [][C29_Step]_vars

C29_Witness ==
    /\ call.entry = "webhooks"
    /\ call.req.accountant_raises
    /\ call.req.vendor_raises
    /\ call.resp.pe_created
    /\ call.resp.payment_entry = Len(db.pes)
    /\ db.pes[Len(db.pes)].docstatus = 0

----------------------------------------------------------------------------
\* C30: after a redelivery for an already-logged transfer identifier the
\* Webhook Log row's event type is the event type of that latest delivery.
C30_Step ==
    (/\ Handled
     /\ LogsFor(db, LogKey(run'.req.body.transferId)) # {})
    => \A i \in LogsFor(db', LogKey(run'.req.body.transferId)) :
           db'.logs[i].webhook_event = run'.req.body.event

C30_EventTypeOfLatestDelivery == [][C30_Step]_vars

----------------------------------------------------------------------------
\* C33: trigger_payout_for_payment_request creates no beneficiary and sends
\* no transfer request for a Payment Request whose Bank Account is not both
\* approved (custom_bank_account_approval_status = 'Approved') and verified
\* (custom_bank_account_verified = 1).
C33_Step ==
    (/\ PayoutCalled("trigger_payout_for_payment_request")
     /\ ~(/\ payout.bank.custom_bank_account_approval_status = "Approved"
          /\ payout.bank.custom_bank_account_verified = 1))
    => /\ payout'.beneficiaries = payout.beneficiaries
       /\ payout'.transfers = payout.transfers

C33_UnverifiedBankNeverPaid == [][C33_Step]_vars

C33_Witness ==
    /\ payout.op = "trigger_payout_for_payment_request"
    /\ payout.bank.custom_bank_account_approval_status = "Approved"
    /\ payout.bank.custom_bank_account_verified = 0
    /\ Lower(payout.doc.workflow_state) = "queued"
    /\ payout.raised = "ValidationError"
    /\ payout.transfers = 0

----------------------------------------------------------------------------
\* C32: retry_failed_pe_creation is idempotent: a Payment Request a run
\* reports as success has exactly one non-cancelled Payment Entry linked to
\* it afterwards, and a later run neither selects it again nor creates a
\* further Payment Entry for it.
C32_Step ==
    RetryRun
    => /\ \A n \in call'.success : Cardinality(LinkedPEs(db', n)) = 1
       /\ \A n \in call.success :
              /\ n \notin call'.success
              /\ LinkedPEs(db', n) = LinkedPEs(db, n)

C32_RetryIdempotent == [][C32_Step]_vars

\* A run has reported success and a further run can follow it.
C32_Witness ==
    /\ call.entry = "retry"
    /\ call.success # {}
    /\ \A n \in call.success : Cardinality(LinkedPEs(db, n)) = 1
    /\ FailedPRs(db) = {}
    /\ EntryCalls < MaxEntryCalls

----------------------------------------------------------------------------
\* Submitted Payment Entries the api/webhook.py handler created for the
\* Payment Request n: the handler copies party and company from the request
\* and sets no payment_request link.
SubmittedFor(d, n) ==
    {i \in DOMAIN d.pes :
        /\ d.pes[i].payment_request = NoVal
        /\ d.pes[i].party = d.prs[n].party
        /\ d.pes[i].company = d.prs[n].company
        /\ d.pes[i].docstatus = 1}

\* C36: whenever no invocation is in progress and a submitted Payment Entry
\* of the handler exists for a Payment Request, the request's
\* custom_reconciliation_status is 'Success'.
C36_SubmittedMeansSuccess ==
    run.pc \in {"idle", "done"}
    => \A n \in PaymentRequests :
           SubmittedFor(db, n) # {}
           => db.prs[n].custom_reconciliation_status = "Success"

----------------------------------------------------------------------------
\* What signature selection did for the request of the last handled
\* delivery: the schemes it evaluated and whether the request passed it.
SchemeSelection(only_one) ==
    LET r == run.req
        accepted == run.resp.code # 401
        sig_in_body == r.body.signature
        sig_in_header == r.sig_header
    IN /\ sig_in_body # NoVal
          => /\ run.evaluated = {"A"}
             /\ accepted <=>
                    verify_cashfree_signature_v1(db, r.body, sig_in_body)
       /\ "B" \in run.evaluated => sig_in_body = NoVal
       /\ (sig_in_body = NoVal /\ sig_in_header # NoVal)
          => /\ run.evaluated = {"B"}
             /\ accepted <=>
                    verify_cashfree_signature_v2(db, r.timestamp, r.raw_body,
                                                 sig_in_header)
       /\ IF only_one THEN Cardinality(run.evaluated) = 1
          ELSE /\ Cardinality(run.evaluated) <= 1
               /\ (sig_in_body = NoVal /\ sig_in_header = NoVal)
                  => run.evaluated = {} /\ ~accepted

\* C37: a body signature selects scheme A alone and the request is accepted
\* iff scheme A verifies, whatever the header; scheme B is evaluated only
\* without a body signature; exactly one scheme is evaluated per request.
C37_ExactlyOneScheme == run.pc = "done" => SchemeSelection(TRUE)

\* C37 as the code has it: at most one scheme is evaluated, and none for a
\* request that carries neither signature, which is rejected.
C37_AtMostOneScheme == run.pc = "done" => SchemeSelection(FALSE)

\* A forged body signature was rejected under scheme A although the header
\* carries the gateway's scheme B signature.
C37_Witness ==
    /\ run.pc = "done"
    /\ run.req.body.signature = Forged
    /\ HeaderSigned(run.req)
    /\ run.evaluated = {"A"}
    /\ run.resp.code = 401
    /\ \E i \in LogsFor(db, run.req.body.transferId) :
           db.logs[i].error_log = "V1 signature verification failed"

----------------------------------------------------------------------------
\* C38: when the handler returns, the Webhook Log Entry of the delivery has
\* status 'Signature Failed', 'Ignored', 'Error', 'Validation Failed',
\* 'Duplicate' or 'PE Submitted', never 'Received', 'Signature Verified' or
\* 'PE Draft Created', and 'PE Submitted' only with a submitted Payment
\* Entry recorded in the entry.
C38_TerminalLogStatus ==
    (run.pc = "done" /\ run.webhook_log # 0)
    => LET entry == db.logs[run.webhook_log] IN
       /\ entry.status \in {"Signature Failed", "Ignored", "Error",
                            "Validation Failed", "Duplicate", "PE Submitted"}
       /\ entry.status = "PE Submitted"
          => /\ entry.payment_entry \in DOMAIN db.pes
             /\ db.pes[entry.payment_entry].docstatus = 1

\* One delivery ended in 'PE Submitted' and the latest one, whose submit
\* raised after the draft was logged, in 'Validation Failed'.
C38_Witness ==
    /\ run.pc = "done"
    /\ run.submit_error
    /\ db.logs[run.webhook_log].status = "Validation Failed"
    /\ db.pes[db.logs[run.webhook_log].payment_entry].docstatus = 0
    /\ \E i \in DOMAIN db.logs :
           /\ db.logs[i].status = "PE Submitted"
           /\ db.pes[db.logs[i].payment_entry].docstatus = 1

----------------------------------------------------------------------------
\* C35: a validly signed TRANSFER_SUCCESS for a resolvable Payment Request
\* is classified as a duplicate only when a non-cancelled Payment Entry with
\* the same UTR, payee and company exists; a successful payout without one
\* gets its own Payment Entry when its company has a Cashfree account.
C35_Step ==
    (/\ Handled
     /\ ValidlySigned(run'.req)
     /\ run'.req.body.event = "TRANSFER_SUCCESS"
     /\ FindPaymentRequest(db, run'.req.body.transferId) # NoVal)
    => LET pr == db.prs[FindPaymentRequest(db, run'.req.body.transferId)]
           same == PEsFor(db, run'.req.body.utr, pr.party, pr.company)
       IN /\ (\/ run'.existing_pe # 0
              \/ db'.logs[run'.webhook_log].status = "Duplicate")
             => same # {}
          /\ (same = {} /\ get_cashfree_bank_account(db, pr.company))
             => /\ Len(db'.pes) = Len(db.pes) + 1
                /\ db'.pes[Len(db'.pes)].reference_no = run'.req.body.utr
                /\ db'.pes[Len(db'.pes)].party = pr.party
                /\ db'.pes[Len(db'.pes)].company = pr.company

C35_DuplicateNeedsSameCompany == [][C35_Step]_vars

----------------------------------------------------------------------------
\* C39: a Payment Entry the handler creates is recorded in the payment_entry
\* field of the Webhook Log Entry written for the delivery; no Payment Entry
\* is created in a run whose create_webhook_log returned no handle.
C39_Step ==
    (Handled /\ Len(db'.pes) > Len(db.pes))
    => /\ run'.webhook_log # 0
       /\ db'.logs[run'.webhook_log].payment_entry = Len(db'.pes)

C39_EveryEntryLogged == [][C39_Step]_vars

----------------------------------------------------------------------------
\* This step is a call of the bulk action op; the names it was given that
\* are Payment Requests.
BulkCalled(op) == bulk'.seq # bulk.seq /\ bulk'.op = op
Listed(b) ==
    {b.payment_requests[i] : i \in DOMAIN b.payment_requests}
        \cap DOMAIN b.prs

\* The reconciliation status allows a payout retry.
RetryAllowed(pr) ==
    pr.custom_reconciliation_status \in {"Failed", "Reversed", "Rejected"}

\* C31: after bulk_retry_payouts reports a Payment Request under success,
\* its stored payout id and UTR are empty, its reconciliation status is
\* 'Pending' and its workflow_state is 'Queued'; a listed Payment Request
\* whose reconciliation status is not Failed, Reversed or Rejected is
\* reported as skipped and left unchanged.
C31_Step ==
    BulkCalled("bulk_retry_payouts")
    => /\ \A n \in bulk'.results.success :
              /\ bulk'.prs[n].custom_cashfree_payout_id = NoVal
              /\ bulk'.prs[n].custom_utr_number = NoVal
              /\ bulk'.prs[n].custom_reconciliation_status = "Pending"
              /\ bulk'.prs[n].workflow_state = "Queued"
       /\ bulk'.raised = NoVal
          => \A n \in Listed(bulk') :
                 ~RetryAllowed(bulk.prs[n])
                 => /\ n \in bulk'.results.skipped
                    /\ bulk'.prs[n] = bulk.prs[n]

C31_RetryClearsPayout == [][C31_Step]_vars

----------------------------------------------------------------------------
\* Source state, target state and required roles of the three workflow
\* actions, and whether the action takes the Payment Request pr.
Workflow(op) ==
    CASE op = "bulk_verify_requests" ->
             [from |-> "Draft", to |-> "Verified",
              roles |-> {"Accounts Manager"}, password |-> FALSE]
      [] op = "bulk_approve_payments" ->
             [from |-> "Verified", to |-> "Approved",
              roles |-> {"Accounts Manager"}, password |-> FALSE]
      [] op = "bulk_queue_payouts" ->
             [from |-> "Approved", to |-> "Queued",
              roles |-> {"Manager", "Director"}, password |-> TRUE]
Takes(op, pr) ==
    /\ pr.workflow_state = Workflow(op).from
    /\ op = "bulk_queue_payouts"
       => \/ pr.custom_cashfree_payout_id = NoVal
          \/ RetryAllowed(pr)

\* C34: a bulk workflow action changes workflow_state only for listed
\* Payment Requests it takes (source state, and for bulk_queue_payouts no
\* payout or a failed one), and moves them to its target state; every other
\* listed Payment Request is reported as skipped and left unchanged; without
\* the required role or, for bulk_queue_payouts, with a wrong password no
\* Payment Request is changed at all.
C34_Step ==
    \A op \in {"bulk_verify_requests", "bulk_approve_payments",
               "bulk_queue_payouts"} :
        BulkCalled(op)
        => /\ \A n \in BulkNames :
                  bulk'.prs[n].workflow_state # bulk.prs[n].workflow_state
                  => /\ n \in Listed(bulk')
                     /\ Takes(op, bulk.prs[n])
                     /\ bulk'.prs[n].workflow_state = Workflow(op).to
           /\ bulk'.raised = NoVal
              => \A n \in Listed(bulk') :
                     ~Takes(op, bulk.prs[n])
                     => /\ n \in bulk'.results.skipped
                        /\ bulk'.prs[n] = bulk.prs[n]
           /\ (\/ bulk'.user_roles \cap Workflow(op).roles = {}
               \/ /\ Workflow(op).password
                  /\ bulk'.password # UserPassword)
              => /\ bulk'.prs = bulk.prs
                 /\ bulk'.results = NoBulk.results

C34_WorkflowFrame == [][C34_Step]_vars

\* The second call, a queue call, took PR-2 and skipped PR-1, which is
\* Approved with a payout that has not failed.
C34_Witness ==
    /\ bulk.op = "bulk_queue_payouts"
    /\ bulk.seq = 2
    /\ bulk.results.success = {"PR-2"}
    /\ bulk.results.skipped = {"PR-1"}
    /\ bulk.prs["PR-2"].workflow_state = "Queued"
    /\ bulk.prs["PR-1"].workflow_state = "Approved"
    /\ bulk.prs["PR-1"].custom_cashfree_payout_id # NoVal
    /\ ~RetryAllowed(bulk.prs["PR-1"])

====
